---- MODULE Spec2Model ----
(***************************************************************************)
(* OTP request lifecycle of the otp-valhalla server (src/index.js, the     *)
(* revision that starts at line 982): the in-memory requestStore, the      *)
(* otp_requests audit table, the identity users, and the request handlers  *)
(* of POST /otp/request and POST /otp/verify, one action per stretch of    *)
(* code between two awaits.                                                *)
(***************************************************************************)
EXTENDS Integers, Sequences, FiniteSets, TLC

\* ---------------------------------------------------------------- bounds
NumHandlers == 2    \* request handlers that can be in flight at once
MaxSessions == 2    \* sessions issued in one behaviour
MaxAudited == 1     \* the same, when the durable store is configured
MaxTime == 2        \* the clock runs from 0 to MaxTime
OTP_TTL_MS == 1     \* the configured time-to-live, in clock ticks

Handlers == 1..NumHandlers
SessionIds == 1..MaxSessions

\* ------------------------------------------------------- phone normalizer
Digits == {"0", "1", "2", "3", "4", "5", "6", "7", "8", "9"}
Whitespace == {" "}

RECURSIVE StripLeft(_)
StripLeft(s) ==
    IF s # <<>> /\ Head(s) \in Whitespace THEN StripLeft(Tail(s)) ELSE s

RECURSIVE StripRight(_)
StripRight(s) ==
    IF s # <<>> /\ s[Len(s)] \in Whitespace
    THEN StripRight(SubSeq(s, 1, Len(s) - 1))
    ELSE s

\* String.prototype.trim
Trim(s) == StripRight(StripLeft(s))

\* replace(/\D/g, '')
normalizePhoneDigits(value) == SelectSeq(value, LAMBDA c : c \in Digits)

\* a normalizer that reads every input by its digits and always prefixes
\* the country code
normalizeAlwaysPrefix(raw) ==
    IF normalizePhoneDigits(raw) = <<>> THEN <<>>
    ELSE <<"+", "7">> \o normalizePhoneDigits(raw)
\* a normalizer without the test for an empty digit string
normalizeNoEmptyTest(raw) ==
    IF raw = <<>> THEN <<>>
    ELSE IF Trim(raw) # <<>> /\ Head(Trim(raw)) = "+" THEN Trim(raw)
    ELSE <<"+">> \o normalizePhoneDigits(Trim(raw))
normalizePhoneToE164(raw) ==
    IF raw = <<>> THEN <<>>
    ELSE LET trimmed == Trim(raw)
             digits == normalizePhoneDigits(trimmed)
         IN  IF trimmed # <<>> /\ Head(trimmed) = "+" THEN trimmed
             ELSE IF digits = <<>> THEN <<>>
             ELSE IF Len(digits) = 11 /\ Head(digits) = "8"
                  THEN <<"+", "7">> \o Tail(digits)
             ELSE IF Len(digits) = 10 /\ Head(digits) = "9"
                  THEN <<"+", "7">> \o digits
             ELSE IF Len(digits) = 11 /\ Head(digits) = "7"
                  THEN <<"+">> \o digits
             ELSE <<"+">> \o digits

\* Request bodies' phone fields: missing, letters only, two spellings of
\* one number, and a second number.
RawPhones ==
    { <<>>,
      <<"a", "b">>,
      <<"8", " ", "9", "9", "9", " ", "1", "2", "3", " ", "4", "5", " ", "6", "7">>,
      <<"+", "7", "9", "9", "9", "1", "2", "3", "4", "5", "6", "7">>,
      <<"9", "9", "9", "1", "2", "3", "4", "5", "6", "8">> }

\* Codes a client can send and Math.random can produce; "" is a missing code.
Codes == {"100000", "999999"}
NoCode == ""

\* ------------------------------------------------------------------ state
VARIABLES
    smsRuConfigured,    \* Boolean(SMSRU_API_ID)
    vonageConfigured,   \* Boolean(VONAGE_API_KEY && VONAGE_API_SECRET)
    supabaseConfigured, \* supabaseAdmin !== null
    requestStore,       \* the live store: requestId -> meta
    otp_requests,       \* the audit table: request_id -> row
    users,              \* the identity system's users
    now,                \* Date.now()
    issued,             \* request ids handed out so far (randomUUID, gateway)
    pc,                 \* where each handler is suspended
    loc,                \* each handler's local variables
    resp,               \* the response sent by the last step, if any
    successes,          \* history: success responses of /otp/verify per requestId
    terminalWrites,     \* history: audit updates to verified / expired per requestId
    profiles            \* the rows of the durable store's table profiles

config == <<smsRuConfigured, vonageConfigured, supabaseConfigured>>
vars == <<smsRuConfigured, vonageConfigured, supabaseConfigured, requestStore,
          otp_requests, users, now, issued, pc, loc, resp, successes,
          terminalWrites, profiles>>

\* a selection that prefers the generic gateway
activeProviderGenericFirst ==
    IF vonageConfigured THEN "vonage"
    ELSE IF smsRuConfigured THEN "smsru"
    ELSE "mock"
\* const activeProvider = smsRuConfigured ? 'smsru' : vonageConfigured ? ...
activeProvider ==
    IF smsRuConfigured THEN "smsru"
    ELSE IF vonageConfigured THEN "vonage"
    ELSE "mock"

NoMeta == [provider |-> "none"]
NoRow == [status |-> "none"]
NoUserId == 0

NoQr == "null"
NoLoc == [requestId |-> 0, code |-> NoCode, phone |-> <<>>, expiresAt |-> 0,
          qrDataUrl |-> NoQr, meta |-> NoMeta, verifiedAt |-> 0]

NoResp == [op |-> "none", status |-> 0, message |-> "", requestId |-> 0]

Init ==
    /\ smsRuConfigured \in BOOLEAN
    /\ vonageConfigured \in BOOLEAN
    /\ supabaseConfigured \in BOOLEAN
    /\ requestStore = [id \in SessionIds |-> NoMeta]
    /\ otp_requests = [id \in SessionIds |-> NoRow]
    /\ users = {}
    /\ profiles = {}
    /\ now = 0
    /\ issued = 0
    /\ pc = [p \in Handlers |-> "idle"]
    /\ loc = [p \in Handlers |-> NoLoc]
    /\ resp = NoResp
    /\ successes = [s \in SessionIds |-> 0]
    /\ terminalWrites = [s \in SessionIds |-> <<>>]

\* ------------------------------------------------------------- responses
MsgPhoneRequired == "phone is required"
MsgInvalidPhone == "invalid phone number"
MsgRequestFailed == "Failed to request verification code"
MsgFieldsRequired == "requestId and code are required"
MsgNotFound == "verification request not found or expired"
MsgExpired == "verification code expired"
MsgInvalidCode == "Invalid verification code"
MsgVerifyFailed == "Failed to verify code"
MsgGatewayError == "gateway error_text"
MsgGatewayThrown == "gateway exception message"
MsgSmsError == "sms.ru error message"

Null == -1

\* res.status(status).json({ message })
ErrorReply(op, status, message, l) ==
    [op |-> op, status |-> status, message |-> message,
     requestId |-> l.requestId]

\* a response that carries the code whatever the provider
RequestReplyWithCode(l) ==
    [op |-> "request", status |-> 200, message |-> "ok",
     requestId |-> l.requestId,
     expiresIn |-> <<OTP_TTL_MS, 1000>>,
     mock |-> (activeProvider = "mock"),
     mockCode |-> l.code,
     qrDataUrl |-> l.qrDataUrl]
\* a response that fails when there is no QR image
RequestReplyNeedsQr(l) ==
    IF l.qrDataUrl = NoQr
    THEN ErrorReply("request", 400, MsgRequestFailed, l)
    ELSE [op |-> "request", status |-> 200, message |-> "ok",
          requestId |-> l.requestId,
          expiresIn |-> <<OTP_TTL_MS, 1000>>,
          mock |-> (activeProvider = "mock"),
          mockCode |-> IF activeProvider = "mock" THEN l.code ELSE NoCode,
          qrDataUrl |-> l.qrDataUrl]
\* res.json({ requestId, expiresIn, mock, mockCode, qr }) of /otp/request
RequestReply(l) ==
    [op |-> "request", status |-> 200, message |-> "ok",
     requestId |-> l.requestId,
     expiresIn |-> <<OTP_TTL_MS, 1000>>,
     mock |-> (activeProvider = "mock"),
     mockCode |-> IF activeProvider = "mock" THEN l.code ELSE NoCode,
     qrDataUrl |-> l.qrDataUrl]

\* supabaseUserInfo of /otp/verify: null, or { userId, created }
NullInfo == [userId |-> NoUserId, created |-> FALSE, isNull |-> TRUE]
UserInfo(userId, created) == [userId |-> userId, created |-> created, isNull |-> FALSE]

\* a success that returns the phone of the request body, which has none
VerifyReplyBodyPhone(l, info) ==
    [op |-> "verify", status |-> 200, message |-> "ok",
     requestId |-> l.requestId, phone |-> l.phone,
     verifiedAt |-> l.verifiedAt, expiresAt |-> l.meta.expiresAt,
     supabaseUserId |-> info.userId, supabaseUserCreated |-> info.created,
     provisioned |-> ~info.isNull]
\* res.json({ success: true, phone: meta.phone, supabaseUserId, ... })
VerifyReply(l, info) ==
    [op |-> "verify", status |-> 200, message |-> "ok",
     requestId |-> l.requestId, phone |-> l.meta.phone,
     verifiedAt |-> l.verifiedAt, expiresAt |-> l.meta.expiresAt,
     supabaseUserId |-> info.userId, supabaseUserCreated |-> info.created,
     provisioned |-> ~info.isNull]

\* a provisioning error that reaches the outer catch of /otp/verify
EnsureFailedThrows(l) ==
    [op |-> "verify", status |-> 500, message |-> MsgVerifyFailed,
     requestId |-> l.requestId]
\* the catch around ensureSupabaseUser: log, supabaseUserInfo stays null
EnsureFailedReply(l) == VerifyReply(l, NullInfo)

\* ------------------------------------------------------------- live store
\* request ids left to hand out
CanIssue == issued < (IF supabaseConfigured THEN MaxAudited ELSE MaxSessions)

StoreSet(store, id, meta) == [store EXCEPT ![id] = meta]
\* a delete that removes nothing
StoreDeleteKeeps(store, id) == store
StoreDelete(store, id) == [store EXCEPT ![id] = NoMeta]

\* an expiry test with a grace period of one time-to-live
IsExpiredLate(meta, t) == meta.expiresAt + OTP_TTL_MS < t
\* an expiry test that never finds a session expired
IsExpiredNever(meta, t) == FALSE
IsExpired(meta, t) == meta.expiresAt < t
UsesGateway(meta) == meta.provider = "vonage" /\ vonageConfigured
\* a comparison that only tests that a secret is stored
CodeMatchesAny(meta, code) == meta.code # NoCode
CodeMatches(meta, code) == meta.code # NoCode /\ meta.code = code

\* ------------------------------------------------------------ audit table
\* createOtpRequestRecord: upsert on request_id; a failed write is logged
UpsertRow(table, l, ok) ==
    IF ~supabaseConfigured \/ ~ok THEN table
    ELSE [table EXCEPT ![l.requestId] =
            [phone |-> l.phone, provider |-> activeProvider,
             status |-> "pending", code |-> l.code,
             expires_at |-> l.expiresAt, verified_at |-> Null]]

\* an update that inserts the row when there is none
UpdateRowOrInsert(table, id, status, verifiedAt, ok) ==
    IF ~supabaseConfigured \/ ~ok THEN table
    ELSE [table EXCEPT ![id] =
            [phone |-> <<>>, provider |-> activeProvider, status |-> status,
             code |-> NoCode, expires_at |-> 0, verified_at |-> verifiedAt]]
\* an update without its filter on request_id: every row is written
UpdateEveryRow(table, id, status, verifiedAt, ok) ==
    IF ~supabaseConfigured \/ ~ok THEN table
    ELSE [i \in DOMAIN table |->
            IF table[i] = NoRow THEN NoRow
            ELSE IF verifiedAt = Null
            THEN [table[i] EXCEPT !.status = status]
            ELSE [table[i] EXCEPT !.status = status, !.verified_at = verifiedAt]]
\* updateOtpRequestRecord(requestId, { status, verifiedAt }): update where
\* request_id = requestId; no row, no change; a failed write is logged
UpdateRow(table, id, status, verifiedAt, ok) ==
    IF ~supabaseConfigured \/ ~ok \/ table[id] = NoRow THEN table
    ELSE [table EXCEPT ![id] =
            IF verifiedAt = Null
            THEN [@ EXCEPT !.status = status]
            ELSE [@ EXCEPT !.status = status, !.verified_at = verifiedAt]]

\* history of the terminal audit updates a handler sends to the table
LogWrite(log, id, status) ==
    IF supabaseConfigured
    THEN [log EXCEPT ![id] = Append(@, status)]
    ELSE log

\* --------------------------------------------------------------- identity
\* A user of the identity system: id, the phone column, whether the phone is
\* confirmed, and identities, the values its linked identities hold in
\* identity_data.phone, .phone_number, .phoneNumber and .sub.

\* identityHasPhone: some linked identity holds the phone, exactly or by its
\* digits
identityHasPhone(user, phone) ==
    \E candidate \in user.identities :
        \/ (candidate # <<>> /\ candidate = phone)
        \/ LET candidateDigits == normalizePhoneDigits(candidate)
               targetDigits == normalizePhoneDigits(phone)
           IN  /\ candidateDigits # <<>>
               /\ targetDigits # <<>>
               /\ candidateDigits = targetDigits

\* a search that compares the phone column exactly and nothing else
PhoneMatchesExact(user, phone) == user.phone # <<>> /\ user.phone = phone
\* users.find of findSupabaseUserByPhone: exact phone, equal digits, or a
\* linked identity that holds the phone
PhoneMatches(user, phone) ==
    \/ (user.phone # <<>> /\ user.phone = phone)
    \/ LET userPhoneDigits == normalizePhoneDigits(user.phone)
           normalizedPhoneDigits == normalizePhoneDigits(phone)
       IN  /\ userPhoneDigits # <<>>
           /\ normalizedPhoneDigits # <<>>
           /\ userPhoneDigits = normalizedPhoneDigits
    \/ identityHasPhone(user, phone)

Matches(us, phone) == {u \in us : PhoneMatches(u, phone)}

\* the identity system refuses a second user whose phone column would hold
\* the same number: createUser fails with 'phone_exists'
PhoneExists(us, phone) ==
    \E u \in us :
        /\ normalizePhoneDigits(u.phone) # <<>>
        /\ normalizePhoneDigits(u.phone) = normalizePhoneDigits(phone)

NextUserId(us) == Cardinality(us) + 1

\* a user created with an unconfirmed phone
NewUserUnconfirmed(id, phone) ==
    [id |-> id, phone |-> phone, phone_confirm |-> FALSE, identities |-> {}]
\* the user made by createUser({ phone, phone_confirm: true })
NewUser(id, phone) ==
    [id |-> id, phone |-> phone, phone_confirm |-> TRUE, identities |-> {}]

NoUser == [id |-> NoUserId, phone |-> <<>>, phone_confirm |-> FALSE,
           identities |-> {}]

\* what findSupabaseUserByPhone returns when the listing succeeds
FindUser(us, phone) ==
    IF Matches(us, phone) = {} THEN NoUser
    ELSE CHOOSE u \in Matches(us, phone) : TRUE

\* ------------------------------------------------------------ handler steps
\* Without supabaseAdmin, createOtpRequestRecord, updateOtpRequestRecord and
\* ensureSupabaseUser return without any I/O: the await on them resumes the
\* handler from the microtask queue, before any other handler or timer runs.
InMicrotask(q) ==
    /\ ~supabaseConfigured
    /\ pc[q] \in {"request_record", "verify_expired", "verify_verified"}

\* an incoming request takes the first idle handler
Accepts(p) == pc[p] = "idle" /\ \A q \in Handlers : q < p => pc[q] # "idle"

\* the event loop gives handler p its turn
Scheduled(p) == \A q \in Handlers \ {p} : ~InMicrotask(q)

Respond(p, r) ==
    /\ resp' = r
    /\ pc' = [pc EXCEPT ![p] = "idle"]
    /\ loc' = [loc EXCEPT ![p] = NoLoc]

Suspend(p, at, l) ==
    /\ pc' = [pc EXCEPT ![p] = at]
    /\ loc' = [loc EXCEPT ![p] = l]
    /\ resp' = NoResp

Continue(p, at, l) == Suspend(p, at, l)

\* a response of /otp/verify after the code was accepted
RespondVerify(p, r) ==
    /\ Respond(p, r)
    /\ successes' = IF r.status = 200
                    THEN [successes EXCEPT ![r.requestId] = @ + 1]
                    ELSE successes

\* an entry stored without its secret
NewMetaNoSecret(l) ==
    [phone |-> l.phone, code |-> NoCode, expiresAt |-> l.expiresAt,
     provider |-> activeProvider]
\* the entry of requestStore.set in /otp/request; qrPayload and qrDataUrl,
\* which no handler reads back, stay in the handler's locals
NewMeta(l) ==
    [phone |-> l.phone, code |-> l.code, expiresAt |-> l.expiresAt,
     provider |-> activeProvider]

QrOutcomes == {"data:image/png", NoQr}

\* a lifetime of two time-to-lives
ExpiresAtTwice(t) == t + 2 * OTP_TTL_MS
\* const expiresAt = Date.now() + OTP_TTL_MS
ExpiresAt(t) == t + OTP_TTL_MS

\* POST /otp/request up to its first await
RequestOtp(p, raw) ==
    /\ Accepts(p)
    /\ Scheduled(p)
    /\ UNCHANGED <<config, profiles, requestStore, otp_requests, users, now, successes,
                   terminalWrites>>
    /\ LET normalized == normalizePhoneToE164(raw)
           l == [NoLoc EXCEPT !.phone = normalized,
                              !.expiresAt = ExpiresAt(now)]
       IN  IF raw = <<>>
           THEN /\ Respond(p, ErrorReply("request", 400, MsgPhoneRequired, NoLoc))
                /\ UNCHANGED issued
           ELSE IF normalized = <<>>
           THEN /\ Respond(p, ErrorReply("request", 400, MsgInvalidPhone, NoLoc))
                /\ UNCHANGED issued
           ELSE IF activeProvider = "vonage" /\ vonageConfigured
           THEN /\ Suspend(p, "request_start", l)
                /\ UNCHANGED issued
           ELSE /\ CanIssue
                /\ issued' = issued + 1
                /\ \E code \in Codes :
                       Suspend(p, "request_qr",
                               [l EXCEPT !.requestId = issued + 1,
                                         !.code = code])

StartOutcomes == {"0", "error", "throw"}

\* the answer of vonage.verify.start, with response.request_id = id
RequestStartWith(p, outcome, id) ==
    /\ pc[p] = "request_start"
    /\ Scheduled(p)
    /\ UNCHANGED <<config, profiles, requestStore, otp_requests, users, now, successes,
                   terminalWrites>>
    /\ IF outcome = "0"
       THEN /\ CanIssue
            /\ id \in 1..(issued + 1)
            /\ issued' = issued + 1
            /\ Continue(p, "request_qr", [loc[p] EXCEPT !.requestId = id])
       ELSE /\ Respond(p, ErrorReply("request", 400,
                          IF outcome = "error" THEN MsgGatewayError
                          ELSE MsgGatewayThrown, loc[p]))
            /\ UNCHANGED issued

\* the same, with a gateway that never repeats a request_id
RequestStart(p, outcome) == RequestStartWith(p, outcome, issued + 1)

\* generateQrDataUrl returns, then requestStore.set
RequestQr(p, qr) ==
    /\ pc[p] = "request_qr"
    /\ Scheduled(p)
    /\ UNCHANGED <<config, profiles, otp_requests, users, now, issued, successes,
                   terminalWrites>>
    /\ LET l == [loc[p] EXCEPT !.qrDataUrl = qr]
       IN  /\ requestStore' = StoreSet(requestStore, l.requestId, NewMeta(l))
           /\ Continue(p, IF activeProvider = "smsru" THEN "request_send"
                          ELSE "request_record", l)

\* sendSmsRuCode returns or throws
RequestSend(p, ok) ==
    /\ pc[p] = "request_send"
    /\ Scheduled(p)
    /\ UNCHANGED <<config, profiles, requestStore, otp_requests, users, now, issued,
                   successes, terminalWrites>>
    /\ IF ok
       THEN Continue(p, "request_record", loc[p])
       ELSE Respond(p, ErrorReply("request", 400, MsgSmsError, loc[p]))

\* an upsert error that reaches the catch of /otp/request
RecordedOrThrown(l, ok) ==
    IF supabaseConfigured /\ ~ok
    THEN ErrorReply("request", 400, MsgRequestFailed, l)
    ELSE RequestReply(l)
\* createOtpRequestRecord catches and logs a failed upsert: the response of
\* /otp/request is the same for every outcome of the write
RecordedReply(l, ok) == RequestReply(l)

\* createOtpRequestRecord returns, then the response
RequestRecord(p, ok) ==
    /\ pc[p] = "request_record"
    /\ Scheduled(p)
    /\ UNCHANGED <<config, profiles, requestStore, users, now, issued, successes,
                   terminalWrites>>
    /\ otp_requests' = UpsertRow(otp_requests, loc[p], ok)
    /\ Respond(p, RecordedReply(loc[p], ok))

\* an unknown request id answered like an expired one
NotFoundAsExpired(l) == ErrorReply("verify", 400, MsgExpired, l)
\* requestStore.get found nothing
NotFoundReply(l) == ErrorReply("verify", 400, MsgNotFound, l)

\* POST /otp/verify up to its first await
VerifyOtp(p, requestId, code) ==
    /\ Accepts(p)
    /\ Scheduled(p)
    /\ UNCHANGED <<config, profiles, otp_requests, users, now, issued, successes,
                   terminalWrites>>
    /\ LET meta == IF requestId \in SessionIds THEN requestStore[requestId]
                   ELSE NoMeta
           args == [NoLoc EXCEPT !.requestId = requestId, !.code = code]
           l == [args EXCEPT !.meta = meta]
       IN  IF requestId = 0 \/ code = NoCode
           THEN /\ Respond(p, ErrorReply("verify", 400, MsgFieldsRequired, args))
                /\ UNCHANGED requestStore
           ELSE IF meta = NoMeta
           THEN /\ Respond(p, NotFoundReply(args))
                /\ UNCHANGED requestStore
           ELSE IF IsExpired(meta, now)
           THEN /\ requestStore' = StoreDelete(requestStore, requestId)
                /\ Suspend(p, "verify_expired", l)
           ELSE IF UsesGateway(meta)
           THEN /\ Suspend(p, "verify_check", l)
                /\ UNCHANGED requestStore
           ELSE IF ~CodeMatches(meta, code)
           THEN /\ Respond(p, ErrorReply("verify", 400, MsgInvalidCode, l))
                /\ UNCHANGED requestStore
           ELSE /\ requestStore' = StoreDelete(requestStore, requestId)
                /\ Suspend(p, "verify_verified", [l EXCEPT !.verifiedAt = now])

\* updateOtpRequestRecord(requestId, { status: 'expired' }) returns
VerifyExpired(p, ok) ==
    /\ pc[p] = "verify_expired"
    /\ Scheduled(p)
    /\ UNCHANGED <<config, profiles, requestStore, users, now, issued, successes>>
    /\ otp_requests' = UpdateRow(otp_requests, loc[p].requestId, "expired", Null, ok)
    /\ terminalWrites' = LogWrite(terminalWrites, loc[p].requestId, "expired")
    /\ Respond(p, ErrorReply("verify", 400, MsgExpired, loc[p]))

CheckOutcomes == {"0", "error", "throw"}

\* a gateway refusal answered like a thrown error
CheckErrorAsThrown(l) == ErrorReply("verify", 500, MsgVerifyFailed, l)
\* response.status !== '0': a client error with the gateway's error_text
CheckErrorReply(l) == ErrorReply("verify", 400, MsgGatewayError, l)

\* a catch that answers like the one of /otp/request: 400 with error.message
CheckThrownAsClientError(l) == ErrorReply("verify", 400, MsgGatewayThrown, l)
\* the catch of /otp/verify: 500 'Failed to verify code'
CheckThrownReply(l) == ErrorReply("verify", 500, MsgVerifyFailed, l)

\* the answer of vonage.verify.check
VerifyCheck(p, outcome) ==
    /\ pc[p] = "verify_check"
    /\ Scheduled(p)
    /\ UNCHANGED <<config, profiles, otp_requests, users, now, issued, successes,
                   terminalWrites>>
    /\ IF outcome = "0"
       THEN /\ requestStore' = StoreDelete(requestStore, loc[p].requestId)
            /\ Continue(p, "verify_verified", [loc[p] EXCEPT !.verifiedAt = now])
       ELSE /\ Respond(p, IF outcome = "error"
                          THEN CheckErrorReply(loc[p])
                          ELSE CheckThrownReply(loc[p]))
            /\ UNCHANGED requestStore

\* updateOtpRequestRecord(requestId, { status: 'verified', verifiedAt })
\* returns; ensureSupabaseUser starts (null at once without supabaseAdmin)
VerifyVerified(p, ok) ==
    /\ pc[p] = "verify_verified"
    /\ Scheduled(p)
    /\ UNCHANGED <<config, profiles, requestStore, users, now, issued>>
    /\ otp_requests' = UpdateRow(otp_requests, loc[p].requestId, "verified",
                                 loc[p].verifiedAt, ok)
    /\ terminalWrites' = LogWrite(terminalWrites, loc[p].requestId, "verified")
    /\ IF supabaseConfigured
       THEN Continue(p, "ensure_find", loc[p]) /\ UNCHANGED successes
       ELSE RespondVerify(p, VerifyReply(loc[p], NullInfo))

\* ensureSupabaseUser: the three returns
ExistingInfo(existing) == UserInfo(existing.id, FALSE)
CreatedInfo(user) == UserInfo(user.id, TRUE)
\* a reconciliation that reports the found user as created
ReconciledAsCreated(user) == UserInfo(user.id, TRUE)
ReconciledInfo(user) == UserInfo(user.id, FALSE)

\* ensureSupabaseUser: the first findSupabaseUserByPhone returns or throws
EnsureFind(p, ok) ==
    /\ pc[p] = "ensure_find"
    /\ Scheduled(p)
    /\ UNCHANGED <<config, profiles, requestStore, otp_requests, users, now, issued,
                   terminalWrites>>
    /\ LET existing == FindUser(users, loc[p].meta.phone)
       IN  IF ~ok THEN RespondVerify(p, EnsureFailedReply(loc[p]))
           ELSE IF existing # NoUser
           THEN RespondVerify(p, VerifyReply(loc[p], ExistingInfo(existing)))
           ELSE Continue(p, "ensure_create", loc[p]) /\ UNCHANGED successes

\* a catch that rethrows 'phone_exists' like every other creation error
RefusedRethrows(p) ==
    /\ RespondVerify(p, EnsureFailedReply(loc[p]))
    /\ UNCHANGED users
\* the catch of createUser on 'phone_exists': search again
Refused(p) ==
    /\ Continue(p, "ensure_refind", loc[p])
    /\ UNCHANGED <<users, successes>>

\* ensureSupabaseUser: auth.admin.createUser returns
EnsureCreate(p, ok) ==
    /\ pc[p] = "ensure_create"
    /\ Scheduled(p)
    /\ UNCHANGED <<config, profiles, requestStore, otp_requests, now, issued,
                   terminalWrites>>
    /\ LET phone == loc[p].meta.phone
           user == NewUser(NextUserId(users), phone)
       IN  IF PhoneExists(users, phone)
           THEN Refused(p)
           ELSE IF ok
           THEN /\ users' = users \cup {user}
                /\ RespondVerify(p, VerifyReply(loc[p], CreatedInfo(user)))
           ELSE /\ RespondVerify(p, EnsureFailedReply(loc[p]))
                /\ UNCHANGED users

\* ensureSupabaseUser: the search after 'phone_exists' returns or throws
EnsureRefind(p, ok) ==
    /\ pc[p] = "ensure_refind"
    /\ Scheduled(p)
    /\ UNCHANGED <<config, profiles, requestStore, otp_requests, users, now, issued,
                   terminalWrites>>
    /\ LET user == FindUser(users, loc[p].meta.phone)
       IN  IF ok /\ user # NoUser
           THEN RespondVerify(p, VerifyReply(loc[p], ReconciledInfo(user)))
           ELSE RespondVerify(p, EnsureFailedReply(loc[p]))

\* a clock whose tick also sweeps the entries that have expired
TickSweeps ==
    /\ now < MaxTime
    /\ \A q \in Handlers : ~InMicrotask(q)
    /\ now' = now + 1
    /\ requestStore' = [id \in SessionIds |->
            IF requestStore[id] # NoMeta /\ IsExpired(requestStore[id], now + 1)
            THEN NoMeta ELSE requestStore[id]]
    /\ resp' = NoResp
    /\ UNCHANGED <<config, profiles, otp_requests, users, issued, pc, loc, successes,
                   terminalWrites>>
\* Date.now() advances
Tick ==
    /\ now < MaxTime
    /\ \A q \in Handlers : ~InMicrotask(q)
    /\ now' = now + 1
    /\ resp' = NoResp
    /\ UNCHANGED <<config, profiles, requestStore, otp_requests, users, issued, pc, loc,
                   successes, terminalWrites>>

Next ==
    \/ \E p \in Handlers, raw \in RawPhones : RequestOtp(p, raw)
    \/ \E p \in Handlers, o \in StartOutcomes : RequestStart(p, o)
    \/ \E p \in Handlers, qr \in QrOutcomes : RequestQr(p, qr)
    \/ \E p \in Handlers, ok \in BOOLEAN : RequestSend(p, ok)
    \/ \E p \in Handlers, ok \in BOOLEAN : RequestRecord(p, ok)
    \/ \E p \in Handlers, id \in SessionIds \cup {0}, code \in Codes \cup {NoCode} :
           VerifyOtp(p, id, code)
    \/ \E p \in Handlers, ok \in BOOLEAN : VerifyExpired(p, ok)
    \/ \E p \in Handlers, o \in CheckOutcomes : VerifyCheck(p, o)
    \/ \E p \in Handlers, ok \in BOOLEAN : VerifyVerified(p, ok)
    \/ \E p \in Handlers, ok \in BOOLEAN : EnsureFind(p, ok)
    \/ \E p \in Handlers, ok \in BOOLEAN : EnsureCreate(p, ok)
    \/ \E p \in Handlers, ok \in BOOLEAN : EnsureRefind(p, ok)
    \/ Tick

Spec == Init /\ [][Next]_vars

\* --------------------------------------------------------- provisioning
\* Sessions issued in mock mode with the durable store configured, one per
\* request id, all pending and live at time 0; then only /otp/verify runs.
IssuedPhones ==
    { normalizePhoneToE164(raw) : raw \in RawPhones } \ {<<>>}

\* What the identity system holds before the first verification: no user, or
\* one user of an issued phone in another format: the phone column without
\* the '+', or an empty phone column and the phone, with or without its '+',
\* in a linked identity.
StoredUsers ==
    {{}} \cup
    { {[id |-> 1, phone |-> column, phone_confirm |-> TRUE,
        identities |-> linked]} :
        <<column, linked>> \in
            UNION { { <<Tail(phone), {}>>,
                      <<<<>>, {phone}>>,
                      <<<<>>, {Tail(phone)}>> } : phone \in IssuedPhones } }

InitProvision ==
    /\ smsRuConfigured = FALSE
    /\ vonageConfigured = FALSE
    /\ supabaseConfigured = TRUE
    /\ \E phones \in [SessionIds -> IssuedPhones] :
         /\ requestStore = [id \in SessionIds |->
                [phone |-> phones[id], code |-> "100000",
                 expiresAt |-> OTP_TTL_MS, provider |-> "mock"]]
         /\ otp_requests = [id \in SessionIds |->
                [phone |-> phones[id], provider |-> "mock", status |-> "pending",
                 code |-> "100000", expires_at |-> OTP_TTL_MS,
                 verified_at |-> Null]]
    /\ users \in StoredUsers
    /\ profiles = {}
    /\ now = 0
    /\ issued = MaxSessions
    /\ pc = [p \in Handlers |-> "idle"]
    /\ loc = [p \in Handlers |-> NoLoc]
    /\ resp = NoResp
    /\ successes = [s \in SessionIds |-> 0]
    /\ terminalWrites = [s \in SessionIds |-> <<>>]

NextProvision ==
    \/ \E p \in Handlers, id \in SessionIds \cup {0}, code \in Codes \cup {NoCode} :
           VerifyOtp(p, id, code)
    \/ \E p \in Handlers, ok \in BOOLEAN : VerifyVerified(p, ok)
    \/ \E p \in Handlers, ok \in BOOLEAN : EnsureFind(p, ok)
    \/ \E p \in Handlers, ok \in BOOLEAN : EnsureCreate(p, ok)
    \/ \E p \in Handlers, ok \in BOOLEAN : EnsureRefind(p, ok)

SpecProvision == InitProvision /\ [][NextProvision]_vars

\* ------------------------------------------------------ untrusted gateway
\* The generic gateway configured alone, without the durable store, and free
\* to answer verify.start with any request_id, one it has returned before
\* included.
InitGateway ==
    /\ smsRuConfigured = FALSE
    /\ vonageConfigured = TRUE
    /\ supabaseConfigured = FALSE
    /\ requestStore = [id \in SessionIds |-> NoMeta]
    /\ otp_requests = [id \in SessionIds |-> NoRow]
    /\ users = {}
    /\ profiles = {}
    /\ now = 0
    /\ issued = 0
    /\ pc = [p \in Handlers |-> "idle"]
    /\ loc = [p \in Handlers |-> NoLoc]
    /\ resp = NoResp
    /\ successes = [s \in SessionIds |-> 0]
    /\ terminalWrites = [s \in SessionIds |-> <<>>]

NextGateway ==
    \/ \E p \in Handlers, raw \in RawPhones : RequestOtp(p, raw)
    \/ \E p \in Handlers, o \in StartOutcomes, id \in SessionIds :
           RequestStartWith(p, o, id)
    \/ \E p \in Handlers, qr \in QrOutcomes : RequestQr(p, qr)
    \/ \E p \in Handlers, ok \in BOOLEAN : RequestRecord(p, ok)
    \/ \E p \in Handlers, id \in SessionIds \cup {0}, code \in Codes \cup {NoCode} :
           VerifyOtp(p, id, code)
    \/ \E p \in Handlers, ok \in BOOLEAN : VerifyExpired(p, ok)
    \/ \E p \in Handlers, o \in CheckOutcomes : VerifyCheck(p, o)
    \/ \E p \in Handlers, ok \in BOOLEAN : VerifyVerified(p, ok)
    \/ Tick

SpecGateway == InitGateway /\ [][NextGateway]_vars

\* ------------------------------------------------------------- normalizer
\* normalizePhoneToE164 applied to request bodies' phone values: an optional
\* space and '+' in front, up to MaxDigits digits that start with 7, 8, 9 or
\* 1, written bare or with a separator after each digit, and an optional
\* trailing space or letter.
MaxDigits == 12

DigitAt(i) == <<"0", "1", "2", "3", "4", "5", "6", "7", "8", "9">>[(i % 10) + 1]

\* n digits, the first of them lead
DigitRun(lead, n) ==
    [i \in 1..n |-> IF i = 1 THEN lead ELSE DigitAt(i + 7)]

RECURSIVE Spread(_, _)
Spread(d, sep) ==
    IF Len(d) <= 1 THEN d ELSE <<Head(d)>> \o sep \o Spread(Tail(d), sep)

PhoneInputs ==
    { pre \o Spread(DigitRun(lead, n), sep) \o suf :
        pre \in {<<>>, <<" ">>, <<"+">>, <<" ", "+">>},
        lead \in {"7", "8", "9", "1"},
        n \in 0..MaxDigits,
        sep \in {<<>>, <<" ">>, <<"-">>, <<"(", ")">>},
        suf \in {<<>>, <<" ">>, <<"x">>} }

\* the value returned by one call
NormalizeResult(raw) ==
    [op |-> "normalize", status |-> 0, message |-> "", requestId |-> 0,
     raw |-> raw, normalized |-> normalizePhoneToE164(raw)]

Normalize(raw) ==
    /\ resp' = NormalizeResult(raw)
    /\ UNCHANGED <<config, profiles, requestStore, otp_requests, users, now, issued, pc,
                   loc, successes, terminalWrites>>

InitNormalize ==
    /\ smsRuConfigured = FALSE
    /\ vonageConfigured = FALSE
    /\ supabaseConfigured = FALSE
    /\ requestStore = [id \in SessionIds |-> NoMeta]
    /\ otp_requests = [id \in SessionIds |-> NoRow]
    /\ users = {}
    /\ profiles = {}
    /\ now = 0
    /\ issued = 0
    /\ pc = [p \in Handlers |-> "idle"]
    /\ loc = [p \in Handlers |-> NoLoc]
    /\ resp = NoResp
    /\ successes = [s \in SessionIds |-> 0]
    /\ terminalWrites = [s \in SessionIds |-> <<>>]

NextNormalize == \E raw \in PhoneInputs : Normalize(raw)

SpecNormalize == InitNormalize /\ [][NextNormalize]_vars

\* ----------------------------------------------------------------- intake
\* Mock mode with the durable store and the identity system configured, and
\* request bodies whose phone is any input of at most MaxRawLen characters.
MaxRawLen == 2

IntakePhones == { raw \in PhoneInputs : Len(raw) <= MaxRawLen }

InitIntake ==
    /\ smsRuConfigured = FALSE
    /\ vonageConfigured = FALSE
    /\ supabaseConfigured = TRUE
    /\ requestStore = [id \in SessionIds |-> NoMeta]
    /\ otp_requests = [id \in SessionIds |-> NoRow]
    /\ users = {}
    /\ profiles = {}
    /\ now = 0
    /\ issued = 0
    /\ pc = [p \in Handlers |-> "idle"]
    /\ loc = [p \in Handlers |-> NoLoc]
    /\ resp = NoResp
    /\ successes = [s \in SessionIds |-> 0]
    /\ terminalWrites = [s \in SessionIds |-> <<>>]

NextIntake ==
    \/ \E p \in Handlers, raw \in IntakePhones : RequestOtp(p, raw)
    \/ \E p \in Handlers, qr \in QrOutcomes : RequestQr(p, qr)
    \/ \E p \in Handlers, ok \in BOOLEAN : RequestRecord(p, ok)
    \/ \E p \in Handlers, id \in SessionIds \cup {0}, code \in Codes \cup {NoCode} :
           VerifyOtp(p, id, code)
    \/ \E p \in Handlers, ok \in BOOLEAN : VerifyExpired(p, ok)
    \/ \E p \in Handlers, ok \in BOOLEAN : VerifyVerified(p, ok)
    \/ \E p \in Handlers, ok \in BOOLEAN : EnsureFind(p, ok)
    \/ \E p \in Handlers, ok \in BOOLEAN : EnsureCreate(p, ok)
    \/ Tick

SpecIntake == InitIntake /\ [][NextIntake]_vars

\* ---------------------------------------------------------- code generator
\* Math.random() returns r in [0, 1).  A value is written r = 1 - gap / den:
\* the grid gap / RandomSteps covers the interval evenly (gap = RandomSteps is
\* r = 0), and gap / 2^30 for small gaps gives the values closest to 1.
RandomSteps == 1000
NearOne == 8

RandomSource ==
    {[gap |-> j, den |-> RandomSteps] : j \in 1..RandomSteps}
        \cup {[gap |-> j, den |-> 2^30] : j \in 1..NearOne}

\* a generator without the offset: Math.floor(r * 1000000)
RandomCodeFromZero(r) ==
    1000000 - ((1000000 * r.gap + r.den - 1) \div r.den)
\* Math.floor(100000 + Math.random() * 900000), which for r = 1 - gap / den
\* is 1000000 - ceil(900000 * gap / den)
RandomCode(r) ==
    1000000 - ((900000 * r.gap + r.den - 1) \div r.den)

RECURSIVE ToDecimal(_)
\* String(n) for a non-negative integer
ToDecimal(n) ==
    IF n < 10 THEN <<DigitAt(n)>>
    ELSE ToDecimal(n \div 10) \o <<DigitAt(n % 10)>>

CodeResult(r) ==
    [op |-> "code", status |-> 0, message |-> "", requestId |-> 0,
     random |-> r, code |-> ToDecimal(RandomCode(r))]

GenerateCode(r) ==
    /\ resp' = CodeResult(r)
    /\ UNCHANGED <<config, profiles, requestStore, otp_requests, users, now, issued, pc,
                   loc, successes, terminalWrites>>

NextCode == \E r \in RandomSource : GenerateCode(r)

SpecCode == InitNormalize /\ [][NextCode]_vars

\* ---------------------------------------------------------------- listing
\* GET /otp/requests over an audit table that earlier requests have filled,
\* with their sessions still in the live store.  created_at is set by the
\* database when a row is inserted and is read by this handler alone, so the
\* rows carry it in this specification only.
MaxLimit == 201

\* A JavaScript number: NaN, or int + 1/2 when half, else int.
Num(n) == [nan |-> FALSE, int |-> n, half |-> FALSE]
NaN == [nan |-> TRUE, int |-> 0, half |-> FALSE]

\* the integers around a negative limit, 0, 1, the default and the cap
LimitInts == ((-1)..2) \cup (49..51) \cup (199..MaxLimit)

\* req.query.limit: missing, not numeric, or a decimal number
LimitQueries ==
    {[kind |-> "absent", int |-> 0, half |-> FALSE],
     [kind |-> "text", int |-> 0, half |-> FALSE]}
        \cup {[kind |-> "number", int |-> n, half |-> h] :
                n \in LimitInts, h \in BOOLEAN}

\* Number(req.query.limit)
ToNumber(q) ==
    IF q.kind = "number" THEN [nan |-> FALSE, int |-> q.int, half |-> q.half]
    ELSE NaN

\* a <= b, for numbers that are not NaN
Leq(a, b) == a.int < b.int \/ (a.int = b.int /\ (a.half => b.half))
MathMax(a, b) == IF Leq(b, a) THEN a ELSE b
MathMin(a, b) == IF Leq(a, b) THEN a ELSE b
\* NaN and 0 are falsy
Falsy(x) == x.nan \/ (x.int = 0 /\ ~x.half)

\* a limit without the lower bound: Math.min(Number(limit) || 50, 200)
sanitizedLimitNoFloor(limit) ==
    MathMin(IF Falsy(limit) THEN Num(50) ELSE limit, Num(200))
\* Math.max(1, Math.min(Number(limit) || 50, 200))
sanitizedLimit(limit) ==
    MathMax(Num(1), MathMin(IF Falsy(limit) THEN Num(50) ELSE limit, Num(200)))

\* The number of rows .limit(n) asks the database for; what the database
\* makes of a fractional n is not in the source: it is cut down or up here,
\* or the read fails.
Cuts(limit) ==
    IF limit.half THEN {limit.int, limit.int + 1} ELSE {limit.int}

ListedPhone == <<"+", "7", "9", "9", "9", "1", "2", "3", "4", "5", "6", "7">>

ListedRow(created) ==
    [phone |-> ListedPhone, provider |-> "mock", status |-> "pending",
     code |-> "100000", expires_at |-> created + OTP_TTL_MS,
     verified_at |-> Null, created_at |-> created]

\* .order('created_at', { ascending: false }): the ids of all rows, each
\* once, created_at never increasing; rows of one created_at in any order
NewestFirst(table) ==
    LET ids == {id \in SessionIds : table[id] # NoRow}
        n == Cardinality(ids)
    IN  { order \in [1..n -> ids] :
            /\ \A i, j \in 1..n : i # j => order[i] # order[j]
            /\ \A i, j \in 1..n :
                 i < j => table[order[i]].created_at >= table[order[j]].created_at }

MsgListFailed == "Failed to load OTP requests"

\* a failed read answered with an empty list
ListFailedAsEmpty(query) ==
    [op |-> "list", status |-> 200, message |-> "ok", requestId |-> 0,
     query |-> query, limit |-> sanitizedLimit(ToNumber(query)),
     items |-> <<>>]
\* the catch of /otp/requests: res.status(500).json({ message })
ListFailedReply(query) ==
    [op |-> "list", status |-> 500, message |-> MsgListFailed,
     requestId |-> 0, query |-> query]

\* res.json({ items }); limit is the argument of .limit() in the query
ListReply(query, order, cut) ==
    LET rows == SubSeq(order, 1, IF cut < Len(order) THEN cut ELSE Len(order))
    IN  [op |-> "list", status |-> 200, message |-> "ok", requestId |-> 0,
         query |-> query, limit |-> sanitizedLimit(ToNumber(query)),
         items |-> [i \in 1..Len(rows) |->
                      [requestId |-> rows[i],
                       status |-> otp_requests[rows[i]].status,
                       createdAt |-> otp_requests[rows[i]].created_at]]]

\* GET /otp/requests: loadRecentOtpRequests throws without supabaseAdmin or
\* when the select reports an error
ListRecent(query, ok, order, cut) ==
    /\ resp' = IF ~supabaseConfigured \/ ~ok
               THEN ListFailedReply(query)
               ELSE ListReply(query, order, cut)
    /\ UNCHANGED <<config, profiles, requestStore, otp_requests, users, now, issued, pc,
                   loc, successes, terminalWrites>>

InitList ==
    /\ smsRuConfigured = FALSE
    /\ vonageConfigured = FALSE
    /\ supabaseConfigured \in BOOLEAN
    /\ otp_requests \in [SessionIds -> {NoRow} \cup {ListedRow(t) : t \in 0..MaxTime}]
    /\ requestStore = [id \in SessionIds |->
            IF otp_requests[id] = NoRow THEN NoMeta
            ELSE [phone |-> ListedPhone, code |-> "100000",
                  expiresAt |-> otp_requests[id].expires_at,
                  provider |-> "mock"]]
    /\ users = {NewUser(1, ListedPhone)}
    /\ profiles = {}
    /\ now = MaxTime
    /\ issued = MaxSessions
    /\ pc = [p \in Handlers |-> "idle"]
    /\ loc = [p \in Handlers |-> NoLoc]
    /\ resp = NoResp
    /\ successes = [s \in SessionIds |-> 0]
    /\ terminalWrites = [s \in SessionIds |-> <<>>]

NextList ==
    \E query \in LimitQueries, ok \in BOOLEAN,
       order \in NewestFirst(otp_requests) :
        \E cut \in Cuts(sanitizedLimit(ToNumber(query))) :
            ListRecent(query, ok, order, cut)

SpecList == InitList /\ [][NextList]_vars

\* ----------------------------------------------------------------- mirror
\* The durable store configured and every audit write successful: the
\* upsert of /otp/request and the updates of /otp/verify always reach the
\* table.  Gateways, QR generation and the identity system fail as before.
InitMirror ==
    /\ smsRuConfigured \in BOOLEAN
    /\ vonageConfigured \in BOOLEAN
    /\ supabaseConfigured = TRUE
    /\ requestStore = [id \in SessionIds |-> NoMeta]
    /\ otp_requests = [id \in SessionIds |-> NoRow]
    /\ users = {}
    /\ profiles = {}
    /\ now = 0
    /\ issued = 0
    /\ pc = [p \in Handlers |-> "idle"]
    /\ loc = [p \in Handlers |-> NoLoc]
    /\ resp = NoResp
    /\ successes = [s \in SessionIds |-> 0]
    /\ terminalWrites = [s \in SessionIds |-> <<>>]

NextMirror ==
    \/ \E p \in Handlers, raw \in RawPhones : RequestOtp(p, raw)
    \/ \E p \in Handlers, o \in StartOutcomes : RequestStart(p, o)
    \/ \E p \in Handlers, qr \in QrOutcomes : RequestQr(p, qr)
    \/ \E p \in Handlers, ok \in BOOLEAN : RequestSend(p, ok)
    \/ \E p \in Handlers : RequestRecord(p, TRUE)
    \/ \E p \in Handlers, id \in SessionIds \cup {0}, code \in Codes \cup {NoCode} :
           VerifyOtp(p, id, code)
    \/ \E p \in Handlers : VerifyExpired(p, TRUE)
    \/ \E p \in Handlers, o \in CheckOutcomes : VerifyCheck(p, o)
    \/ \E p \in Handlers : VerifyVerified(p, TRUE)
    \/ \E p \in Handlers, ok \in BOOLEAN : EnsureFind(p, ok)
    \/ \E p \in Handlers, ok \in BOOLEAN : EnsureCreate(p, ok)
    \/ \E p \in Handlers, ok \in BOOLEAN : EnsureRefind(p, ok)
    \/ Tick

SpecMirror == InitMirror /\ [][NextMirror]_vars

\* ------------------------------------------------------------------ frame
\* The durable store configured, every audit write successful, and one
\* session of an earlier, answered request already there: live, with its
\* pending audit row.  The run issues one more session, so that two audited
\* sessions exist side by side.  The provider is self-managed: SMS.RU or
\* the mock.
EarlierId == MaxSessions
EarlierPhone == <<"+", "7", "9", "9", "9", "1", "2", "3", "4", "5", "6", "7">>

InitFrame ==
    /\ smsRuConfigured \in BOOLEAN
    /\ vonageConfigured = FALSE
    /\ supabaseConfigured = TRUE
    /\ \E phone \in {EarlierPhone} :
         /\ requestStore = [id \in SessionIds |->
                IF id = EarlierId
                THEN [phone |-> phone, code |-> "100000",
                      expiresAt |-> OTP_TTL_MS, provider |-> activeProvider]
                ELSE NoMeta]
         /\ otp_requests = [id \in SessionIds |->
                IF id = EarlierId
                THEN [phone |-> phone, provider |-> activeProvider,
                      status |-> "pending", code |-> "100000",
                      expires_at |-> OTP_TTL_MS, verified_at |-> Null]
                ELSE NoRow]
    /\ users = {}
    /\ profiles = {}
    /\ now = 0
    /\ issued = 0
    /\ pc = [p \in Handlers |-> "idle"]
    /\ loc = [p \in Handlers |-> NoLoc]
    /\ resp = NoResp
    /\ successes = [s \in SessionIds |-> 0]
    /\ terminalWrites = [s \in SessionIds |-> <<>>]

NextFrame ==
    \/ \E p \in Handlers, raw \in RawPhones : RequestOtp(p, raw)
    \/ \E p \in Handlers, qr \in QrOutcomes : RequestQr(p, qr)
    \/ \E p \in Handlers, ok \in BOOLEAN : RequestSend(p, ok)
    \/ \E p \in Handlers : RequestRecord(p, TRUE)
    \/ \E p \in Handlers, id \in SessionIds \cup {0}, code \in Codes \cup {NoCode} :
           VerifyOtp(p, id, code)
    \/ \E p \in Handlers : VerifyExpired(p, TRUE)
    \/ \E p \in Handlers : VerifyVerified(p, TRUE)
    \/ \E p \in Handlers, ok \in BOOLEAN : EnsureFind(p, ok)
    \/ \E p \in Handlers, ok \in BOOLEAN : EnsureCreate(p, ok)
    \/ \E p \in Handlers, ok \in BOOLEAN : EnsureRefind(p, ok)
    \/ Tick

SpecFrame == InitFrame /\ [][NextFrame]_vars

\* ----------------------------------------------------------------- search
\* findSupabaseUserByPhone page by page.  users is the identity system's
\* list in listing order; the handler's locals are the phone and the page,
\* with the pages fetched so far and the nextPage each of them reported.
\* The list does not change during a search.
MaxUsers == 4
\* const perPage = 200, scaled down
perPage == 2

SearchPhone == <<"+", "7", "9", "9", "9", "1", "2", "3", "4", "5", "6", "7">>
OtherPhone == <<"+", "7", "9", "9", "9", "1", "2", "3", "4", "5", "6", "8">>

\* users of the list: the phone column holds the phone without its '+', a
\* linked identity holds the phone, or the user has another phone
UserKinds == {"digits", "identity", "other"}
ListedUser(i, kind) ==
    [id |-> i,
     phone |-> IF kind = "digits" THEN Tail(SearchPhone)
               ELSE IF kind = "identity" THEN <<>> ELSE OtherPhone,
     phone_confirm |-> TRUE,
     identities |-> IF kind = "identity" THEN {SearchPhone} ELSE {}]

UserLists ==
    UNION { { [i \in 1..n |-> ListedUser(i, kinds[i])] :
                kinds \in [1..n -> UserKinds] } : n \in 0..MaxUsers }

Searcher == 1

\* data.users of listUsers({ page, perPage }): the page-th slice of the list
PageOf(list, page) ==
    SubSeq(list, (page - 1) * perPage + 1,
           IF page * perPage < Len(list) THEN page * perPage ELSE Len(list))

\* data.nextPage: null, or a page number the listing reports: the page
\* itself, the one after it, or one further on
Reports == {"null", "same", "next", "skip"}
ReportedPage(report, page) ==
    IF report = "null" THEN Null
    ELSE IF report = "same" THEN page
    ELSE IF report = "next" THEN page + 1
    ELSE page + 2

\* users.find(...): the first user of the page that matches, or NoUser
match(pageUsers, phone) ==
    IF \E i \in 1..Len(pageUsers) : PhoneMatches(pageUsers[i], phone)
    THEN pageUsers[CHOOSE i \in 1..Len(pageUsers) :
                     /\ PhoneMatches(pageUsers[i], phone)
                     /\ \A j \in 1..(i - 1) : ~PhoneMatches(pageUsers[j], phone)]
    ELSE NoUser

\* a loop that goes on whatever the listing reports
hasMoreAlways(pageUsers, nextPage, page) == TRUE
\* typeof data?.nextPage === 'number' && data.nextPage > page
\*   && users.length > 0
hasMore(pageUsers, nextPage, page) ==
    /\ nextPage # Null
    /\ nextPage > page
    /\ Len(pageUsers) > 0

SearchReply(outcome, user, l) ==
    [op |-> "find", status |-> 0, message |-> outcome, requestId |-> 0,
     user |-> user, page |-> l.page, visited |-> l.visited,
     reported |-> l.reported]

InitSearch ==
    /\ smsRuConfigured = FALSE
    /\ vonageConfigured = FALSE
    /\ supabaseConfigured = TRUE
    /\ requestStore = [id \in SessionIds |-> NoMeta]
    /\ otp_requests = [id \in SessionIds |-> NoRow]
    /\ users \in UserLists
    /\ profiles = {}
    /\ now = 0
    /\ issued = 0
    /\ pc = [p \in Handlers |-> "idle"]
    /\ loc = [p \in Handlers |-> NoLoc]
    /\ resp = NoResp
    /\ successes = [s \in SessionIds |-> 0]
    /\ terminalWrites = [s \in SessionIds |-> <<>>]

\* findSupabaseUserByPhone(phone) up to its first listUsers: let page = 1
SearchStart ==
    /\ pc[Searcher] = "idle"
    /\ resp = NoResp
    /\ pc' = [pc EXCEPT ![Searcher] = "search_page"]
    /\ loc' = [loc EXCEPT ![Searcher] =
                 [phone |-> SearchPhone, page |-> 1, visited |-> <<>>,
                  reported |-> <<>>]]
    /\ UNCHANGED <<config, profiles, requestStore, otp_requests, users, now, issued, resp,
                   successes, terminalWrites>>

\* one turn of the loop: listUsers({ page, perPage }) returns or fails
SearchPage(ok, report) ==
    /\ pc[Searcher] = "search_page"
    /\ UNCHANGED <<config, profiles, requestStore, otp_requests, users, now, issued,
                   successes, terminalWrites>>
    /\ LET page == loc[Searcher].page
           nextPage == ReportedPage(report, page)
           l == [loc[Searcher] EXCEPT
                   !.visited = Append(@, page),
                   !.reported = Append(@, IF ok THEN nextPage ELSE Null)]
           pageUsers == PageOf(users, page)
           found == match(pageUsers, l.phone)
           Return(r) == /\ pc' = [pc EXCEPT ![Searcher] = "idle"]
                        /\ loc' = [loc EXCEPT ![Searcher] = NoLoc]
                        /\ resp' = r
       IN  IF ~ok THEN Return(SearchReply("throw", NoUser, l))
           ELSE IF found # NoUser THEN Return(SearchReply("match", found, l))
           ELSE IF ~hasMore(pageUsers, nextPage, page) \/ Len(pageUsers) = 0
           THEN Return(SearchReply("null", NoUser, l))
           ELSE /\ pc' = pc
                /\ loc' = [loc EXCEPT ![Searcher] = [l EXCEPT !.page = page + 1]]
                /\ resp' = NoResp

NextSearch ==
    \/ SearchStart
    \/ \E ok \in BOOLEAN, report \in Reports : SearchPage(ok, report)

\* every listUsers call is answered
SpecSearch == InitSearch /\ [][NextSearch]_vars /\ WF_vars(NextSearch)

\* --------------------------------------------------------------- profiles
\* POST /profiles/ensure, one call after the other.  A row of profiles is a
\* record of auth_user_id, full_name, email, phone and role; the constant
\* columns region, category, interests and simple_mode_enabled are left out.
HexDigits == Digits \cup {"a", "b", "c", "d", "e", "f", "A", "B", "C", "D", "E", "F"}

\* UUID_REGEX.test(s): 8-4-4-4-12 hex digits, version 1 to 5, variant 8, 9, a
\* or b, case-insensitive
UUID_REGEX(s) ==
    /\ Len(s) = 36
    /\ \A i \in {9, 14, 19, 24} : s[i] = "-"
    /\ s[15] \in {"1", "2", "3", "4", "5"}
    /\ s[20] \in {"8", "9", "a", "b", "A", "B"}
    /\ \A i \in (1..36) \ {9, 14, 15, 19, 20, 24} : s[i] \in HexDigits

Repeat(c, n) == [i \in 1..n |-> c]
\* 8-4-4-4-12 with the given filler, version and variant characters
UuidLike(c, version, variant) ==
    Repeat(c, 8) \o <<"-">> \o Repeat(c, 4) \o <<"-", version>> \o Repeat(c, 3)
      \o <<"-", variant>> \o Repeat(c, 3) \o <<"-">> \o Repeat(c, 12)

Undefined == <<>>
\* req.body.authUserId: missing, two valid ids (one upper-case), an id of
\* version 7, one of a wrong variant, one with a letter that is no hex
\* digit, a valid id with a trailing character, and a short string
AuthUserIds ==
    { Undefined,
      UuidLike("a", "4", "8"),
      UuidLike("B", "1", "B"),
      UuidLike("a", "7", "8"),
      UuidLike("a", "4", "c"),
      UuidLike("g", "4", "8"),
      UuidLike("a", "4", "8") \o <<"0">>,
      <<"4", "2">> }

NoName == "undefined"
FullNames == {NoName, "Anna", "Boris"}

DefaultFullName == "Pol'zovatel'"
NullColumn == "null"

\* buildProfileInsertPayload: full_name: input.fullName ?? the default
buildProfileInsertPayload(input) ==
    [auth_user_id |-> input.authUserId,
     full_name |-> IF input.fullName = NoName THEN DefaultFullName
                   ELSE input.fullName,
     email |-> NullColumn, phone |-> NullColumn, role |-> "self"]

NoProfile == [auth_user_id |-> Undefined, full_name |-> NoName,
              email |-> NullColumn, phone |-> NullColumn, role |-> "none"]

MsgNotConfigured == "Supabase is not configured"
MsgAuthUserIdRequired == "Valid authUserId is required"
MsgEnsureFailed == "Failed to ensure profile"

ProfileReply(status, message, profile, input) ==
    [op |-> "ensure_profile", status |-> status, message |-> message,
     requestId |-> 0, profile |-> profile, input |-> input]

\* fetchProfileRecord: .eq('auth_user_id', authUserId).maybeSingle()
Fetched(table, authUserId) == {row \in table : row.auth_user_id = authUserId}

\* an ensure that inserts without looking for an existing row
ensureInsertsAlways(table, input, fetchOk, insertOk) ==
    IF ~insertOk THEN [thrown |-> TRUE, profile |-> NoProfile, table |-> table]
    ELSE [thrown |-> FALSE, profile |-> buildProfileInsertPayload(input),
          table |-> table \cup {buildProfileInsertPayload(input)}]
\* ensureProfileRecord(input): the existing row, or the inserted one; throws
\* when the read or the insert fails or the read finds several rows
ensureProfileRecord(table, input, fetchOk, insertOk) ==
    LET existing == Fetched(table, input.authUserId)
        payload == buildProfileInsertPayload(input)
    IN  IF ~fetchOk \/ Cardinality(existing) > 1
        THEN [thrown |-> TRUE, profile |-> NoProfile, table |-> table]
        ELSE IF existing # {}
        THEN [thrown |-> FALSE, profile |-> CHOOSE row \in existing : TRUE,
              table |-> table]
        ELSE IF ~insertOk
        THEN [thrown |-> TRUE, profile |-> NoProfile, table |-> table]
        ELSE [thrown |-> FALSE, profile |-> payload,
              table |-> table \cup {payload}]

InitProfiles ==
    /\ smsRuConfigured = FALSE
    /\ vonageConfigured = FALSE
    /\ supabaseConfigured \in BOOLEAN
    /\ requestStore = [id \in SessionIds |-> NoMeta]
    /\ otp_requests = [id \in SessionIds |-> NoRow]
    /\ users = {}
    /\ profiles = {}
    /\ now = 0
    /\ issued = 0
    /\ pc = [p \in Handlers |-> "idle"]
    /\ loc = [p \in Handlers |-> NoLoc]
    /\ resp = NoResp
    /\ successes = [s \in SessionIds |-> 0]
    /\ terminalWrites = [s \in SessionIds |-> <<>>]

\* POST /profiles/ensure, from the request to the response
EnsureProfile(authUserId, fullName, fetchOk, insertOk) ==
    /\ UNCHANGED <<config, requestStore, otp_requests, users, now, issued, pc,
                   loc, successes, terminalWrites>>
    /\ LET input == [authUserId |-> authUserId, fullName |-> fullName]
           result == ensureProfileRecord(profiles, input, fetchOk, insertOk)
       IN  IF ~supabaseConfigured
           THEN /\ resp' = ProfileReply(500, MsgNotConfigured, NoProfile, input)
                /\ UNCHANGED profiles
           ELSE IF authUserId = Undefined \/ ~UUID_REGEX(authUserId)
           THEN /\ resp' = ProfileReply(400, MsgAuthUserIdRequired, NoProfile,
                                        input)
                /\ UNCHANGED profiles
           ELSE IF result.thrown
           THEN /\ resp' = ProfileReply(500, MsgEnsureFailed, NoProfile, input)
                /\ profiles' = result.table
           ELSE /\ resp' = ProfileReply(200, "ok", result.profile, input)
                /\ profiles' = result.table

NextProfiles ==
    \E authUserId \in AuthUserIds, fullName \in FullNames,
       fetchOk \in BOOLEAN, insertOk \in BOOLEAN :
        EnsureProfile(authUserId, fullName, fetchOk, insertOk)

SpecProfiles == InitProfiles /\ [][NextProfiles]_vars

\* ================================================================ claims
VerifiedPath == {"verify_verified", "ensure_find", "ensure_create", "ensure_refind"}

SelfManaged == activeProvider # "vonage"

\* the code of session id was accepted: a handler is past the check, or has
\* already answered with success
Consumed(id) ==
    \/ successes[id] >= 1
    \/ \E q \in Handlers : pc[q] \in VerifiedPath /\ loc[q].requestId = id

\* C1: of all VerifyOtp requests for one sessionId, whatever their
\* interleaving, at most one is answered with success.
C1_SingleSuccess == \A id \in SessionIds : successes[id] <= 1

\* C2: no VerifyOtp succeeds at or after expiresAt: the time at which the
\* code is accepted is strictly before the session's expiresAt.
C2_NoSuccessAtOrAfterExpiry ==
    (resp.op = "verify" /\ resp.status = 200) => resp.verifiedAt < resp.expiresAt

\* C3: for a self-managed session, a VerifyOtp with the correct code before
\* expiry removes the session and is answered with success, and every
\* VerifyOtp on that sessionId after it is answered 'not found'.
C3_AcceptsOnce ==
    [][SelfManaged =>
        /\ \A p \in Handlers, id \in SessionIds, code \in Codes :
             /\ (/\ requestStore[id] # NoMeta
                 /\ code = requestStore[id].code
                 /\ now < requestStore[id].expiresAt
                 /\ VerifyOtp(p, id, code))
                  => (requestStore'[id] = NoMeta /\ pc'[p] = "verify_verified")
             /\ (Consumed(id) /\ VerifyOtp(p, id, code))
                  => (resp'.op = "verify" /\ resp'.status = 400
                        /\ resp'.message = MsgNotFound)
        /\ \A p \in Handlers :
             (pc[p] \in VerifiedPath /\ pc'[p] = "idle")
                  => (resp'.op = "verify" /\ resp'.status = 200
                        /\ resp'.requestId = loc[p].requestId
                        /\ requestStore'[loc[p].requestId] = NoMeta)
    ]_vars

\* C3 witness: a second VerifyOtp on a session that was verified is answered
\* 'not found'.
C3_Witness ==
    /\ SelfManaged
    /\ resp.op = "verify" /\ resp.status = 400 /\ resp.message = MsgNotFound
    /\ resp.requestId \in SessionIds
    /\ successes[resp.requestId] = 1

\* C4: a VerifyOtp with a wrong code on a live, unexpired self-managed
\* session is answered 'invalid code' and changes neither the live store,
\* nor the audit table, nor the users.
C4_WrongCodeKeepsSession ==
    [][SelfManaged =>
        \A p \in Handlers, id \in SessionIds, code \in Codes :
            (/\ requestStore[id] # NoMeta
             /\ code # requestStore[id].code
             /\ now < requestStore[id].expiresAt
             /\ VerifyOtp(p, id, code))
              => /\ resp'.op = "verify" /\ resp'.status = 400
                 /\ resp'.message = MsgInvalidCode
                 /\ pc'[p] = "idle"
                 /\ UNCHANGED <<requestStore, otp_requests, users>>
    ]_vars

\* C4 witness: 'invalid code' was answered and the session is still live
\* and unexpired.
C4_Witness ==
    /\ SelfManaged
    /\ resp.op = "verify" /\ resp.message = MsgInvalidCode
    /\ requestStore[resp.requestId] # NoMeta
    /\ now < requestStore[resp.requestId].expiresAt

\* C5: for each sessionId at most one audit update to a terminal status
\* (verified or expired) is sent.
C5_TerminalOnce == \A id \in SessionIds : Len(terminalWrites[id]) <= 1

\* C6: concurrent ensureSupabaseUser calls for one phone create one identity:
\* no phone ever has two users, a caller is told created=true only in the step
\* that adds its user, and every caller that returns gets the id of the one
\* user of its phone.
C6_EnsureOnce ==
    /\ [](\A u, v \in users : PhoneMatches(u, v.phone) => u = v)
    /\ []((resp.op = "verify" /\ resp.status = 200 /\ resp.provisioned)
            => \E u \in users : /\ u.id = resp.supabaseUserId
                                /\ PhoneMatches(u, resp.phone))
    /\ [][(resp'.op = "verify" /\ resp'.status = 200 /\ resp'.supabaseUserCreated)
            => /\ ~PhoneExists(users, resp'.phone)
               /\ users' = users \cup {NewUser(resp'.supabaseUserId,
                                               resp'.phone)}]_vars

\* C6 witness: two calls for one phone both found no user; one has just
\* created it and returned created=true while the other's createUser is
\* still to be refused with 'phone exists'.
C6_Witness ==
    \E p \in Handlers :
        /\ pc[p] = "ensure_create"
        /\ resp.op = "verify" /\ resp.status = 200 /\ resp.supabaseUserCreated
        /\ resp.phone = loc[p].meta.phone
        /\ resp.requestId # loc[p].requestId

\* C7: once the code is accepted, VerifyOtp answers success with the
\* session's phone whatever provisioning does; when provisioning fails the
\* user id is null and created is false; the session is consumed and the
\* 'verified' audit update was sent.
C7_ProvisioningBestEffort ==
    [][\A p \in Handlers :
        (pc[p] \in VerifiedPath /\ pc'[p] = "idle")
          => /\ resp'.op = "verify" /\ resp'.status = 200
             /\ resp'.requestId = loc[p].requestId
             /\ resp'.phone = loc[p].meta.phone
             /\ (~resp'.provisioned =>
                    /\ resp'.supabaseUserId = NoUserId
                    /\ resp'.supabaseUserCreated = FALSE
                    /\ users' = users)
             /\ requestStore'[loc[p].requestId] = NoMeta
             /\ (supabaseConfigured =>
                    \E i \in DOMAIN terminalWrites'[loc[p].requestId] :
                        terminalWrites'[loc[p].requestId][i] = "verified")
    ]_vars

\* C7 witness: with the identity system configured, provisioning failed and
\* the answer is success with a null user id.
C7_Witness ==
    /\ supabaseConfigured
    /\ resp.op = "verify" /\ resp.status = 200
    /\ ~resp.provisioned /\ resp.supabaseUserId = NoUserId

\* C8: the outcome of an audit write changes nothing but the audit table:
\* after the upsert or an update returns, the live store is unchanged and the
\* handler's response (or next step) is the one fixed by its locals.
C8_AuditNeverPropagates ==
    [][\A p \in Handlers :
        /\ (pc[p] = "request_record" /\ pc'[p] # pc[p])
             => /\ resp' = RequestReply(loc[p])
                /\ UNCHANGED <<requestStore, users>>
        /\ (pc[p] = "verify_expired" /\ pc'[p] # pc[p])
             => /\ resp' = ErrorReply("verify", 400, MsgExpired, loc[p])
                /\ UNCHANGED <<requestStore, users>>
        /\ (pc[p] = "verify_verified" /\ pc'[p] # pc[p])
             => /\ IF supabaseConfigured
                   THEN pc'[p] = "ensure_find" /\ resp' = NoResp
                   ELSE resp' = VerifyReply(loc[p], NullInfo)
                /\ UNCHANGED <<requestStore, users>>
    ]_vars

\* C8 witness: the upsert at issuance failed (no audit row exists) and
\* RequestOtp answered success with the session in the live store.
C8_Witness ==
    /\ supabaseConfigured
    /\ resp.op = "request" /\ resp.status = 200
    /\ otp_requests[resp.requestId] = NoRow
    /\ requestStore[resp.requestId] # NoMeta

\* C9: when RequestOtp is rejected because the delivery failed, the live
\* store holds no session of that request.
C9_NoSessionAfterFailedSend ==
    (resp.op = "request" /\ resp.status # 200 /\ resp.requestId \in SessionIds)
        => requestStore[resp.requestId] = NoMeta

\* C10: a VerifyOtp on a live session whose expiresAt has passed removes the
\* session whatever the code, starts no gateway check and no provisioning,
\* sends the audit update to 'expired' and answers 'code expired'.
C10_ExpiredIsPurged ==
    [][\A p \in Handlers :
        /\ \A id \in SessionIds, code \in Codes :
             (/\ requestStore[id] # NoMeta
              /\ requestStore[id].expiresAt < now
              /\ VerifyOtp(p, id, code))
               => /\ requestStore'[id] = NoMeta
                  /\ pc'[p] = "verify_expired"
                  /\ UNCHANGED <<otp_requests, users>>
        /\ (pc[p] = "verify_expired" /\ pc'[p] # pc[p])
               => /\ pc'[p] = "idle"
                  /\ resp'.op = "verify" /\ resp'.status = 400
                  /\ resp'.message = MsgExpired
                  /\ resp'.requestId = loc[p].requestId
                  /\ UNCHANGED <<requestStore, users>>
                  /\ otp_requests' \in
                        {otp_requests,
                         [otp_requests EXCEPT ![loc[p].requestId].status = "expired"]}
                  /\ (supabaseConfigured =>
                        /\ terminalWrites'[loc[p].requestId] =
                              Append(terminalWrites[loc[p].requestId], "expired"))
    ]_vars

\* C10 witness: 'code expired' was answered, the session is gone and its
\* audit row says expired.
C10_Witness ==
    /\ resp.op = "verify" /\ resp.message = MsgExpired
    /\ requestStore[resp.requestId] = NoMeta
    /\ otp_requests[resp.requestId] # NoRow
    /\ otp_requests[resp.requestId].status = "expired"

\* C11: a non-success response of the gateway check is answered as a client
\* error with the gateway's error text and changes neither the live store,
\* nor the audit table, nor the users; a session that was live stays live
\* with the same entry, and a pending audit row stays pending.
C11_GatewayRefusalKeepsSession ==
    [][\A p \in Handlers :
        VerifyCheck(p, "error")
          => /\ resp'.op = "verify" /\ resp'.status = 400
             /\ resp'.message = MsgGatewayError
             /\ resp'.requestId = loc[p].requestId
             /\ pc'[p] = "idle"
             /\ UNCHANGED <<requestStore, otp_requests, users>>
    ]_vars

\* C11 witness: the gateway refused the code; the session is still live and
\* unexpired, its audit row is pending, and a retry is possible.
C11_Witness ==
    /\ resp.op = "verify" /\ resp.status = 400 /\ resp.message = MsgGatewayError
    /\ requestStore[resp.requestId] # NoMeta
    /\ requestStore[resp.requestId].provider = "vonage"
    /\ now < requestStore[resp.requestId].expiresAt
    /\ otp_requests[resp.requestId] # NoRow
    /\ otp_requests[resp.requestId].status = "pending"

\* C12: a VerifyOtp without a requestId or without a code, or with a
\* requestId that has no live entry, is answered with a client error ('not
\* found or expired' for the unknown id) and changes neither the live store,
\* nor the audit table, nor the users.
C12_RejectsMissingAndUnknown ==
    [][\A p \in Handlers, id \in SessionIds \cup {0}, code \in Codes \cup {NoCode} :
        /\ ((id = 0 \/ code = NoCode) /\ VerifyOtp(p, id, code))
              => /\ resp'.op = "verify" /\ resp'.status = 400
                 /\ resp'.message = MsgFieldsRequired
                 /\ pc'[p] = "idle"
                 /\ UNCHANGED <<requestStore, otp_requests, users>>
        /\ (/\ id # 0 /\ code # NoCode
             /\ requestStore[id] = NoMeta
             /\ VerifyOtp(p, id, code))
              => /\ resp'.op = "verify" /\ resp'.status = 400
                 /\ resp'.message = MsgNotFound
                 /\ pc'[p] = "idle"
                 /\ UNCHANGED <<requestStore, otp_requests, users>>
    ]_vars

\* C12 witness: a VerifyOtp for a request id that was never issued was
\* answered 'not found' while another session is live.
C12_Witness ==
    /\ resp.op = "verify" /\ resp.status = 400 /\ resp.message = MsgNotFound
    /\ resp.requestId \in SessionIds
    /\ issued < resp.requestId
    /\ \E id \in SessionIds : requestStore[id] # NoMeta

\* C13: every entry of the live store has a secret if and only if its
\* provider is self-managed (smsru or mock); an entry of the remote gateway
\* (vonage) has none.
C13_SecretIffSelfManaged ==
    \A id \in SessionIds :
        requestStore[id] # NoMeta =>
            /\ requestStore[id].provider \in {"smsru", "mock", "vonage"}
            /\ (requestStore[id].code # NoCode
                    <=> requestStore[id].provider \in {"smsru", "mock"})

\* C13 witness: every request id has a live gateway entry, none with a
\* secret.
C13_Witness ==
    /\ \A id \in SessionIds :
          /\ requestStore[id] # NoMeta
          /\ requestStore[id].provider = "vonage"
          /\ requestStore[id].code = NoCode

\* C14: from its creation to its removal the live entry of a request id
\* keeps its phone, provider, secret and expiresAt (no step replaces a live
\* entry by another), and the step that accepts a code or detects the expiry
\* leaves no live entry for that request id.
C14_LiveEntryImmutable ==
    [][/\ \A id \in SessionIds :
            requestStore[id] # NoMeta
                => requestStore'[id] \in {requestStore[id], NoMeta}
       /\ \A p \in Handlers :
            (pc[p] # pc'[p] /\ pc'[p] \in {"verify_verified", "verify_expired"})
                => requestStore'[loc'[p].requestId] = NoMeta
    ]_vars

RequestPath == {"request_start", "request_qr", "request_send", "request_record"}

\* C15: the expiresAt of a request is the time its handler started plus the
\* one configured time-to-live; the handler keeps it while it runs, stores
\* it in the live entry and writes the same value to the audit row, and the
\* success response reports expiresIn = OTP_TTL_MS / 1000.
C15_ExpiresAtIsStartPlusTtl ==
    /\ [](\A id \in SessionIds :
            (requestStore[id] # NoMeta /\ otp_requests[id] # NoRow)
                => otp_requests[id].expires_at = requestStore[id].expiresAt)
    /\ []((resp.op = "request" /\ resp.status = 200)
            => resp.expiresIn = <<OTP_TTL_MS, 1000>>)
    /\ [][/\ \A p \in Handlers :
              /\ (pc[p] = "idle" /\ pc'[p] \in RequestPath)
                    => loc'[p].expiresAt = now + OTP_TTL_MS
              /\ (pc[p] \in RequestPath /\ pc'[p] \in RequestPath)
                    => loc'[p].expiresAt = loc[p].expiresAt
         /\ \A id \in SessionIds :
              /\ (requestStore'[id] # requestStore[id] /\ requestStore'[id] # NoMeta)
                    => \E p \in Handlers :
                          /\ pc[p] = "request_qr" /\ loc[p].requestId = id
                          /\ requestStore'[id].expiresAt = loc[p].expiresAt
              /\ (otp_requests'[id] # otp_requests[id]
                        /\ otp_requests'[id].status = "pending")
                    => \E p \in Handlers :
                          /\ pc[p] = "request_record" /\ loc[p].requestId = id
                          /\ otp_requests'[id].expires_at = loc[p].expiresAt
       ]_vars

\* C15 witness: RequestOtp answered success after the clock advanced while
\* it ran; the live entry and the audit row carry the expiresAt computed at
\* its start.
C15_Witness ==
    /\ resp.op = "request" /\ resp.status = 200
    /\ requestStore[resp.requestId] # NoMeta
    /\ otp_requests[resp.requestId] # NoRow
    /\ otp_requests[resp.requestId].expires_at = requestStore[resp.requestId].expiresAt
    /\ requestStore[resp.requestId].expiresAt < now + OTP_TTL_MS

\* C16: the status of the audit row of a request id never goes back to
\* pending: a row that is verified or expired stays a row and is never
\* pending in the next state, whatever the order of the upsert of
\* /otp/request and the updates of /otp/verify.
C16_StatusMonotonic ==
    [][\A id \in SessionIds :
        (otp_requests[id] # NoRow /\ otp_requests[id].status \in {"verified", "expired"})
            => /\ otp_requests'[id] # NoRow
               /\ otp_requests'[id].status \in {"verified", "expired"}
    ]_vars

\* C16 witness: a VerifyOtp consumed the session and sent its 'verified'
\* update while the RequestOtp that created the session was still awaiting
\* its upsert; the update found no row, and the upsert then wrote the row,
\* pending.
C16_Witness ==
    /\ resp.op = "request" /\ resp.status = 200
    /\ requestStore[resp.requestId] = NoMeta
    /\ terminalWrites[resp.requestId] = <<"verified">>
    /\ otp_requests[resp.requestId] # NoRow
    /\ otp_requests[resp.requestId].status = "pending"

\* C17: the active provider is smsru when smsru is configured, else vonage
\* when vonage is configured, else mock; the configuration, and with it the
\* active provider, never changes; and every live entry and every audit row
\* carries the active provider.
C17_OneActiveProvider ==
    /\ [](/\ smsRuConfigured => activeProvider = "smsru"
          /\ (~smsRuConfigured /\ vonageConfigured) => activeProvider = "vonage"
          /\ (~smsRuConfigured /\ ~vonageConfigured) => activeProvider = "mock")
    /\ [](\A id \in SessionIds :
            /\ requestStore[id] # NoMeta
                  => requestStore[id].provider = activeProvider
            /\ otp_requests[id] # NoRow
                  => otp_requests[id].provider = activeProvider)
    /\ [][UNCHANGED config /\ activeProvider' = activeProvider]_vars

\* C17 witness: both gateways are configured and a session created by
\* RequestOtp is live with provider smsru.
C17_Witness ==
    /\ smsRuConfigured /\ vonageConfigured
    /\ resp.op = "request" /\ resp.status = 200
    /\ requestStore[resp.requestId] # NoMeta
    /\ requestStore[resp.requestId].provider = "smsru"

\* C18: normalizePhoneToE164 is idempotent: normalizing a normalized value
\* returns it unchanged, for every input, the domestic 10-digit and 11-digit
\* and the international forms with separators among them.
C18_NormalizeIdempotent ==
    resp.op = "normalize"
        => normalizePhoneToE164(resp.normalized) = resp.normalized

\* C18 witness: a domestic 11-digit number written with separators was
\* rewritten to the international form.
C18_Witness ==
    /\ resp.op = "normalize"
    /\ resp.raw # <<>>
    /\ Head(resp.raw) = "8" /\ Len(normalizePhoneDigits(resp.raw)) = 11
    /\ Len(resp.raw) > 11
    /\ resp.normalized = <<"+", "7">> \o Tail(normalizePhoneDigits(resp.raw))
    /\ resp.normalized # resp.raw

\* C19: for an input that does not start with '+' and has digits d, the
\* result is '+7' and the last 10 digits when d is 11 digits starting with
\* 8, '+7' and d when d is 10 digits starting with 9, and '+' and d
\* otherwise.
C19_DomesticRules ==
    (/\ resp.op = "normalize"
     /\ resp.raw # <<>> /\ Head(resp.raw) # "+"
     /\ normalizePhoneDigits(resp.raw) # <<>>)
        => LET d == normalizePhoneDigits(resp.raw)
           IN  resp.normalized =
                 IF Len(d) = 11 /\ Head(d) = "8" THEN <<"+", "7">> \o SubSeq(d, 2, 11)
                 ELSE IF Len(d) = 10 /\ Head(d) = "9" THEN <<"+", "7">> \o d
                 ELSE <<"+">> \o d

\* C20: every phone in a live entry, in an audit row, passed to
\* provisioning or held by a user is canonical: a '+' followed by one or
\* more characters, all of them digits.
C20_StoredPhonesCanonical ==
    LET Canonical(phone) ==
            /\ Len(phone) >= 2
            /\ Head(phone) = "+"
            /\ \A i \in 2..Len(phone) : phone[i] \in Digits
    IN  /\ \A id \in SessionIds :
             /\ requestStore[id] # NoMeta => Canonical(requestStore[id].phone)
             /\ otp_requests[id] # NoRow => Canonical(otp_requests[id].phone)
        /\ \A p \in Handlers :
             pc[p] \in {"ensure_find", "ensure_create", "ensure_refind"}
                 => Canonical(loc[p].meta.phone)
        /\ \A u \in users : Canonical(u.phone)

\* C21: a RequestOtp whose phone is missing, or has no digit and no leading
\* '+', is answered with a client error in its first step: no gateway call
\* or delivery is started, no request id is taken, and the live store, the
\* audit table and the users are unchanged.
C21_RejectsEmptyPhone ==
    [][\A p \in Handlers, raw \in RawPhones :
        (/\ \/ raw = <<>>
            \/ /\ normalizePhoneDigits(raw) = <<>>
               /\ (Trim(raw) = <<>> \/ Head(Trim(raw)) # "+")
         /\ RequestOtp(p, raw))
          => /\ resp'.op = "request" /\ resp'.status = 400
             /\ resp'.message \in {MsgPhoneRequired, MsgInvalidPhone}
             /\ pc'[p] = "idle"
             /\ UNCHANGED <<requestStore, otp_requests, users, issued>>
    ]_vars

\* C21 witness: with the SMS gateway active, a phone without digits was
\* answered 'invalid phone number', and no request id has been taken.
C21_Witness ==
    /\ activeProvider = "smsru"
    /\ resp.op = "request" /\ resp.status = 400
    /\ resp.message = MsgInvalidPhone
    /\ issued = 0
    /\ \A p \in Handlers : pc[p] = "idle"

\* C22: in mock mode the success response of RequestOtp carries the secret
\* of the session it created, and a VerifyOtp with that request id and that
\* code, while the session is live and unexpired, is accepted and answered
\* with success; with another provider no response of RequestOtp carries a
\* code.
C22_MockCodeIsTheSecret ==
    /\ []((resp.op = "request" /\ resp.status = 200) =>
            IF activeProvider = "mock"
            THEN /\ resp.mock
                 /\ resp.mockCode \in Codes
                 /\ requestStore[resp.requestId] # NoMeta
                        => requestStore[resp.requestId].code = resp.mockCode
            ELSE ~resp.mock /\ resp.mockCode = NoCode)
    /\ [][activeProvider = "mock" =>
            \A p \in Handlers :
              /\ (pc[p] = "request_record" /\ pc'[p] = "idle")
                    => resp'.mockCode = loc[p].code
              /\ \A id \in SessionIds :
                    (/\ requestStore[id] # NoMeta
                     /\ now < requestStore[id].expiresAt
                     /\ VerifyOtp(p, id, requestStore[id].code))
                        => pc'[p] = "verify_verified" /\ loc'[p].requestId = id
              /\ (pc[p] \in VerifiedPath /\ pc'[p] = "idle")
                    => /\ resp'.op = "verify" /\ resp'.status = 200
                       /\ resp'.requestId = loc[p].requestId
       ]_vars

\* C22 witness: in mock mode RequestOtp answered with the mockCode of a
\* session that is live and unexpired.
C22_Witness ==
    /\ activeProvider = "mock"
    /\ resp.op = "request" /\ resp.status = 200
    /\ requestStore[resp.requestId] # NoMeta
    /\ requestStore[resp.requestId].code = resp.mockCode
    /\ now < requestStore[resp.requestId].expiresAt

\* C23: the secret of a self-managed session is the decimal string of an
\* integer in 100000..999999: exactly six digits, the first one not 0, for
\* every value of the random source in [0, 1).
C23_SixDigitCode ==
    resp.op = "code" =>
        /\ RandomCode(resp.random) \in 100000..999999
        /\ Len(resp.code) = 6
        /\ \A i \in 1..6 : resp.code[i] \in Digits
        /\ resp.code[1] # "0"

\* the random value closest to 1 gives the largest code
C23_Witness ==
    /\ resp.op = "code"
    /\ resp.random = [gap |-> 1, den |-> 2^30]
    /\ resp.code = <<"9", "9", "9", "9", "9", "9">>

\* C26: ensureSupabaseUser is idempotent over sequential calls.  A call that
\* finds a user of the phone returns that user's id with created=false and
\* never reaches createUser; a call that finds none creates one user with
\* the phone confirmed and returns its id with created=true; every later
\* call for the phone then returns that same id with created=false, and the
\* number of users stays as it is.
C26_EnsureIdempotent ==
    [][\A p \in Handlers :
         LET phone == loc[p].meta.phone
             found == {u \in users : PhoneMatches(u, phone)}
         IN  /\ (pc[p] = "ensure_find" /\ pc'[p] # "ensure_find"
                   /\ found # {})
                   => /\ pc'[p] = "idle"
                      /\ users' = users
             /\ (pc[p] = "ensure_find" /\ pc'[p] = "idle"
                   /\ resp'.op = "verify" /\ resp'.provisioned)
                   => /\ found # {}
                      /\ \A u \in found : u.id = resp'.supabaseUserId
                      /\ ~resp'.supabaseUserCreated
                      /\ Cardinality(users') = Cardinality(users)
             /\ (pc[p] = "ensure_create" /\ pc'[p] = "idle"
                   /\ resp'.op = "verify" /\ resp'.provisioned)
                   => /\ found = {}
                      /\ resp'.supabaseUserCreated
                      /\ Cardinality(users') = Cardinality(users) + 1
                      /\ \E u \in users' \ users :
                           /\ u.id = resp'.supabaseUserId
                           /\ u.phone = phone
                           /\ u.phone_confirm
                      /\ \A u \in users' : PhoneMatches(u, phone)
                                             => u.id = resp'.supabaseUserId
    ]_vars

\* C26 witness: two sessions of one phone were verified; one call created
\* the user, the later one has just returned the same id with created=false,
\* and there is still one user.
C26_Witness ==
    /\ resp.op = "verify" /\ resp.status = 200 /\ resp.provisioned
    /\ ~resp.supabaseUserCreated
    /\ users = {NewUser(resp.supabaseUserId, resp.phone)}
    /\ \E id \in SessionIds \ {resp.requestId} :
         /\ successes[id] = 1
         /\ otp_requests[id].phone = resp.phone
    /\ \A p \in Handlers : pc[p] = "idle"

\* C27: when createUser is refused because a user of the phone exists by
\* now, ensureSupabaseUser searches again and returns the existing user with
\* created=false; when createUser fails otherwise, or a search fails, the
\* error leaves ensureSupabaseUser (the handler then answers without a user)
\* and no user is created.
C27_ReconcilesOnPhoneExists ==
    [][\A p \in Handlers :
         LET phone == loc[p].meta.phone
             found == {u \in users : PhoneMatches(u, phone)}
         IN  /\ (pc[p] = "ensure_create" /\ pc'[p] # "ensure_create"
                   /\ found # {})
                   => /\ pc'[p] = "ensure_refind"
                      /\ users' = users
             /\ (pc[p] = "ensure_refind" /\ pc'[p] = "idle"
                   /\ resp'.op = "verify" /\ resp'.provisioned)
                   => /\ \E u \in found : u.id = resp'.supabaseUserId
                      /\ ~resp'.supabaseUserCreated
                      /\ users' = users
             /\ (pc[p] \in {"ensure_find", "ensure_create", "ensure_refind"}
                   /\ pc'[p] = "idle"
                   /\ resp'.op = "verify" /\ ~resp'.provisioned)
                   => /\ users' = users
                      /\ resp'.supabaseUserId = NoUserId
                      /\ ~resp'.supabaseUserCreated
    ]_vars

\* C27 witness: a call found no user, the other call created the user and
\* returned, and this call's createUser has been refused: it is about to
\* search again, and the search will find that user.
C27_Witness ==
    \E p \in Handlers :
        /\ pc[p] = "ensure_refind"
        /\ FindUser(users, loc[p].meta.phone) = NewUser(1, loc[p].meta.phone)
        /\ \E id \in SessionIds \ {loc[p].requestId} : successes[id] = 1

\* C28: the search finds a user whose phone column equals the phone or has
\* the same digits, and a user with a linked identity that holds such a
\* phone; so no two users ever hold the same phone, whatever the format it
\* was stored in.
C28_FindsStoredVariants ==
    LET SamePhone(a, b) ==
            \/ (a # <<>> /\ a = b)
            \/ /\ normalizePhoneDigits(a) # <<>>
               /\ normalizePhoneDigits(a) = normalizePhoneDigits(b)
        Holds(u, phone) ==
            \/ SamePhone(u.phone, phone)
            \/ \E c \in u.identities : SamePhone(c, phone)
    IN  /\ \A u \in users, phone \in IssuedPhones :
              Holds(u, phone) => /\ PhoneMatches(u, phone)
                                 /\ FindUser(users, phone) # NoUser
        /\ \A u, v \in users : u # v => ~Holds(u, v.phone)
        /\ (resp.op = "verify" /\ resp.status = 200
              /\ \E u \in users : Holds(u, resp.phone) /\ u.phone # resp.phone)
              => ~resp.supabaseUserCreated

\* C28 witness: the phone was stored only in a linked identity, without its
\* '+'; the call returned that user and created none.
C28_Witness ==
    /\ resp.op = "verify" /\ resp.status = 200 /\ resp.provisioned
    /\ ~resp.supabaseUserCreated
    /\ \E u \in users :
         /\ users = {u}
         /\ u.id = resp.supabaseUserId
         /\ u.phone = <<>>
         /\ u.identities = {Tail(resp.phone)}

\* C24, amended: the listing queries the audit table with a limit that is
\* always between 1 and 200: 50 when the limit is absent, not a number or 0,
\* min(limit, 200) for a limit of at least 1, and 1 for every other limit,
\* negative or a positive fraction below 1; it returns the newest rows
\* first, as many as the limit says (all of them when there are fewer; a
\* fractional limit cut down or up).
C24_LimitClampedNewestFirst ==
    (resp.op = "list" /\ resp.status = 200) =>
        LET q == resp.query
            limit == resp.limit
            ids == {id \in SessionIds : otp_requests[id] # NoRow}
            n == Len(resp.items)
            listed == {resp.items[i].requestId : i \in 1..n}
            AtMost(k) == IF k < Cardinality(ids) THEN k ELSE Cardinality(ids)
        IN  /\ ~limit.nan
            /\ limit.int >= 1
            /\ limit.int < 200 \/ (limit.int = 200 /\ ~limit.half)
            /\ (q.kind # "number" \/ (q.int = 0 /\ ~q.half)) => limit = Num(50)
            /\ (q.kind = "number" /\ q.int >= 1)
                  => limit = (IF q.int < 200
                              THEN [nan |-> FALSE, int |-> q.int, half |-> q.half]
                              ELSE Num(200))
            /\ (q.kind = "number" /\ (q.int < 0 \/ (q.int = 0 /\ q.half)))
                  => limit = Num(1)
            /\ n \in {AtMost(limit.int), AtMost(limit.int + 1)}
            /\ ~limit.half => n = AtMost(limit.int)
            /\ listed \subseteq ids
            /\ Cardinality(listed) = n
            /\ \A i, j \in 1..n :
                 i < j => resp.items[i].createdAt >= resp.items[j].createdAt
            /\ \A i \in 1..n : \A id \in ids \ listed :
                 resp.items[i].createdAt >= otp_requests[id].created_at
            /\ \A i \in 1..n :
                 resp.items[i].createdAt = otp_requests[resp.items[i].requestId].created_at

\* C24 witness: a limit of one half over two rows of different age was made
\* 1 and returned the newer row alone.
C24_Witness ==
    /\ resp.op = "list" /\ resp.status = 200
    /\ resp.query = [kind |-> "number", int |-> 0, half |-> TRUE]
    /\ resp.limit = Num(1)
    /\ Len(resp.items) = 1
    /\ \E id \in SessionIds :
         /\ otp_requests[id] # NoRow
         /\ otp_requests[id].created_at < resp.items[1].createdAt

\* C24 as stated: the limit is within 1..200, 50 when absent, not a number
\* or 0, min(limit, 200) for every positive limit, 1 for a negative one.
C24_PositiveLimitIsMin ==
    (resp.op = "list" /\ resp.status = 200) =>
        LET q == resp.query
            limit == resp.limit
        IN  /\ ~limit.nan
            /\ limit.int >= 1
            /\ limit.int < 200 \/ (limit.int = 200 /\ ~limit.half)
            /\ (q.kind # "number" \/ (q.int = 0 /\ ~q.half)) => limit = Num(50)
            /\ (q.kind = "number" /\ (q.int >= 1 \/ (q.int = 0 /\ q.half)))
                  => limit = (IF q.int < 200
                              THEN [nan |-> FALSE, int |-> q.int, half |-> q.half]
                              ELSE Num(200))
            /\ (q.kind = "number" /\ q.int < 0) => limit = Num(1)
            /\ \A i, j \in 1..Len(resp.items) :
                 i < j => resp.items[i].createdAt >= resp.items[j].createdAt

\* C25: the listing is read-only and fails hard: without the durable store,
\* or when the read fails, it answers 500 and never a list; and whatever it
\* answers, the live store, the audit table and the users are unchanged.
C25_ListReadOnlyFailsHard ==
    [][resp'.op = "list" =>
         /\ UNCHANGED <<requestStore, otp_requests, users>>
         /\ resp'.status \in {200, 500}
         /\ ~supabaseConfigured => resp'.status = 500
         /\ resp'.status = 500 => resp'.message = MsgListFailed
         /\ resp'.status = 200 =>
              LET rows == Cardinality({id \in SessionIds : otp_requests[id] # NoRow})
              IN  \/ Len(resp'.items) = rows
                  \/ Len(resp'.items) \in {resp'.limit.int, resp'.limit.int + 1}
    ]_vars

\* C25 witness: the durable store is configured and holds rows, the read
\* failed, and the answer is the server error.
C25_Witness ==
    /\ resp.op = "list" /\ resp.status = 500
    /\ resp.message = MsgListFailed
    /\ supabaseConfigured
    /\ \A id \in SessionIds : otp_requests[id] # NoRow /\ requestStore[id] # NoMeta

\* C29: expiry is lazy.  An entry leaves the live store only in a step of
\* /otp/verify for its own request id: the step that finds it expired, or
\* the step that accepts the code.  No step of /otp/request, no verify of
\* another id and no tick of the clock removes an entry.
C29_RemovedOnlyByOwnVerify ==
    [][\A id \in SessionIds :
         (requestStore[id] # NoMeta /\ requestStore'[id] = NoMeta)
            => /\ now' = now
               /\ \E p \in Handlers :
                    \/ /\ pc[p] = "idle"
                       /\ loc'[p].requestId = id
                       /\ \/ /\ pc'[p] = "verify_expired"
                             /\ requestStore[id].expiresAt < now
                          \/ /\ pc'[p] = "verify_verified"
                             /\ ~(requestStore[id].expiresAt < now)
                    \/ /\ pc[p] = "verify_check"
                       /\ loc[p].requestId = id
                       /\ pc'[p] = "verify_verified"
    ]_vars

\* C29 witness: a session that expired and was never verified is still in
\* the store when the clock has run out, with every handler idle.
C29_Witness ==
    /\ now = MaxTime
    /\ \A p \in Handlers : pc[p] = "idle"
    /\ \E id \in SessionIds :
         /\ requestStore[id] # NoMeta
         /\ requestStore[id].expiresAt < now
         /\ successes[id] = 0
         /\ terminalWrites[id] = <<>>

\* C30: a failed QR image generation is not fatal to /otp/request: the
\* session is put into the live store all the same, the handler goes on to
\* deliver and to mirror it, and its response is a success with the request
\* id in which only the QR image is missing; the mirror row, when written,
\* is pending.
C30_QrFailureNotFatal ==
    [][\A p \in Handlers :
         LET id == loc[p].requestId
         IN  /\ (pc[p] = "request_qr" /\ pc'[p] # "request_qr")
                   => /\ requestStore'[id] # NoMeta
                      /\ requestStore'[id].phone = loc[p].phone
                      /\ requestStore'[id].expiresAt = loc[p].expiresAt
                      /\ pc'[p] = (IF activeProvider = "smsru" THEN "request_send"
                                   ELSE "request_record")
                      /\ loc'[p].requestId = id
             /\ (pc[p] = "request_record" /\ pc'[p] = "idle"
                   /\ loc[p].qrDataUrl = NoQr)
                   => /\ resp'.op = "request"
                      /\ resp'.status = 200
                      /\ resp'.requestId = id
                      /\ resp'.qrDataUrl = NoQr
                      /\ \/ otp_requests'[id] = otp_requests[id]
                         \/ /\ supabaseConfigured
                            /\ otp_requests'[id].status = "pending"
                            /\ otp_requests'[id].phone = loc[p].phone
    ]_vars

\* C30 witness: the QR image could not be made; the response is a success
\* without it, the session is live and its mirror row is pending.
C30_Witness ==
    /\ resp.op = "request" /\ resp.status = 200
    /\ resp.qrDataUrl = NoQr
    /\ requestStore[resp.requestId] # NoMeta
    /\ supabaseConfigured
    /\ otp_requests[resp.requestId] # NoRow
    /\ otp_requests[resp.requestId].status = "pending"

\* C31: the audit table mirrors every transition.  With the durable store
\* configured and its writes successful, whenever no request is in flight
\* the row of a session is 'pending' exactly while the session is in the
\* live store, with the entry's phone, provider and expiry; it is
\* 'verified' once the session was verified and 'expired' once its expiry
\* was detected.
C31_AuditMirrorsLifecycle ==
    (supabaseConfigured /\ \A p \in Handlers : pc[p] = "idle") =>
        \A id \in SessionIds :
            otp_requests[id] # NoRow =>
                /\ (otp_requests[id].status = "pending") <=> (requestStore[id] # NoMeta)
                /\ requestStore[id] # NoMeta =>
                     /\ otp_requests[id].phone = requestStore[id].phone
                     /\ otp_requests[id].provider = requestStore[id].provider
                     /\ otp_requests[id].expires_at = requestStore[id].expiresAt
                /\ successes[id] > 0 => otp_requests[id].status = "verified"
                /\ (\E i \in 1..Len(terminalWrites[id]) : terminalWrites[id][i] = "expired")
                     => otp_requests[id].status = "expired"

\* C32: identity provisioning is started only by a verification that has
\* passed the expiry test and the code test (the stored code, or the
\* gateway's acceptance), after the session was deleted and the 'verified'
\* audit update was sent, and once: the search is entered only from that
\* point, createUser only after the search, the second search only after
\* createUser, and the users change only in a createUser step.
C32_ProvisionOnlyAfterVerified ==
    /\ [](\A p \in Handlers :
            pc[p] \in {"ensure_find", "ensure_create", "ensure_refind"}
               => /\ supabaseConfigured
                  /\ loc[p].meta # NoMeta
                  /\ requestStore[loc[p].requestId] = NoMeta
                  /\ \E i \in 1..Len(terminalWrites[loc[p].requestId]) :
                       terminalWrites[loc[p].requestId][i] = "verified")
    /\ [][/\ \A p \in Handlers :
               LET id == loc'[p].requestId
               IN  /\ (pc'[p] = "verify_verified" /\ pc[p] # "verify_verified")
                         => /\ pc[p] \in {"idle", "verify_check"}
                            /\ requestStore'[id] = NoMeta
                            /\ pc[p] = "idle"
                                 => /\ requestStore[id] # NoMeta
                                    /\ ~(requestStore[id].expiresAt < now)
                                    /\ requestStore[id].provider # "vonage"
                                    /\ loc'[p].code # NoCode
                                    /\ requestStore[id].code = loc'[p].code
                            /\ pc[p] = "verify_check"
                                 => loc[p].meta.provider = "vonage"
                   /\ (pc'[p] = "ensure_find" /\ pc[p] # "ensure_find")
                         => pc[p] = "verify_verified"
                   /\ (pc'[p] = "ensure_create" /\ pc[p] # "ensure_create")
                         => pc[p] = "ensure_find"
                   /\ (pc'[p] = "ensure_refind" /\ pc[p] # "ensure_refind")
                         => pc[p] = "ensure_create"
          /\ users' # users
               => \E q \in Handlers : pc[q] = "ensure_create" /\ pc'[q] = "idle"
       ]_vars

\* C32 witness: a verification with the stored code has deleted the session
\* and sent the 'verified' update, and now searches the users.
C32_Witness ==
    \E p \in Handlers :
        /\ pc[p] = "ensure_find"
        /\ loc[p].meta.code = loc[p].code
        /\ requestStore[loc[p].requestId] = NoMeta
        /\ terminalWrites[loc[p].requestId] = <<"verified">>
        /\ users = {}

\* C33: when vonage.verify.check throws, /otp/verify answers 500 'Failed to
\* verify code' and changes nothing: the session stays in the live store as
\* it was, the audit table and the users are untouched.  A handler that
\* leaves the check without acceptance answers either that or the gateway's
\* refusal, and no other step of /otp/verify answers 500.
C33_ThrownCheckKeepsSession ==
    [][/\ \A p \in Handlers :
            (pc[p] = "verify_check" /\ pc'[p] = "idle")
               => /\ resp'.op = "verify"
                  /\ resp'.requestId = loc[p].requestId
                  /\ \/ resp'.status = 500 /\ resp'.message = MsgVerifyFailed
                     \/ resp'.status = 400 /\ resp'.message = MsgGatewayError
                  /\ UNCHANGED <<requestStore, otp_requests, users, successes,
                                 terminalWrites>>
       /\ (resp'.op = "verify" /\ resp'.status = 500)
            => /\ resp'.message = MsgVerifyFailed
               /\ \E q \in Handlers : pc[q] = "verify_check" /\ pc'[q] = "idle"
    ]_vars

\* C33 witness: the check threw, the answer is the server error, and the
\* session is still live and not yet expired.
C33_Witness ==
    /\ resp.op = "verify" /\ resp.status = 500
    /\ resp.message = MsgVerifyFailed
    /\ requestStore[resp.requestId] # NoMeta
    /\ requestStore[resp.requestId].provider = "vonage"
    /\ now <= requestStore[resp.requestId].expiresAt

\* C34: the phone of a successful /otp/verify and of the provisioning is the
\* normalized phone of the /otp/request that created the request id.  Each
\* request is given an id no earlier request had; the entry of an id is
\* written once, by the requestStore.set of that request, with that
\* request's normalized phone, and from then on it is deleted or left as it
\* is; /otp/verify copies the entry of
\* its id when it starts and keeps the copy to its end; the success reply
\* and the created user carry the phone of the copy; other sessions' steps
\* in between change none of this.
C34_VerifiedPhoneIsRequestedPhone ==
    [][/\ \A id \in SessionIds :
            /\ (requestStore[id] # NoMeta /\ requestStore'[id] # requestStore[id])
                 => requestStore'[id] = NoMeta
            /\ (requestStore[id] = NoMeta /\ requestStore'[id] # NoMeta)
                 => /\ id <= issued
                    /\ \E q \in Handlers :
                         /\ pc[q] = "request_qr" /\ pc'[q] # "request_qr"
                         /\ loc[q].requestId = id
                         /\ loc[q].phone \in IssuedPhones
                         /\ requestStore'[id].phone = loc[q].phone
                    /\ \A q \in Handlers :
                         (pc[q] \in VerifiedPath \cup {"verify_check", "verify_expired"})
                            => loc[q].requestId # id
       /\ issued' >= issued
       /\ \A p \in Handlers :
            /\ (pc[p] # "request_qr" /\ pc'[p] = "request_qr")
                 => /\ issued' = issued + 1
                    /\ loc'[p].requestId = issued'
                    /\ loc'[p].phone \in IssuedPhones
            /\ (pc[p] = "request_qr" /\ pc'[p] = "request_qr")
                 => loc'[p] = loc[p]
            /\ (pc[p] = "request_qr" /\ pc'[p] # "request_qr")
                 => /\ requestStore[loc[p].requestId] = NoMeta
                    /\ requestStore'[loc[p].requestId].phone = loc[p].phone
            /\ (pc[p] = "idle" /\ pc'[p] \in VerifiedPath \cup {"verify_check"})
                 => /\ loc'[p].meta = requestStore[loc'[p].requestId]
                    /\ loc'[p].meta # NoMeta
            /\ (pc[p] \in VerifiedPath \cup {"verify_check"} /\ pc'[p] # "idle")
                 => /\ loc'[p].meta = loc[p].meta
                    /\ loc'[p].requestId = loc[p].requestId
            /\ (pc[p] \in VerifiedPath /\ pc'[p] = "idle")
                 => (resp'.op = "verify" /\ resp'.status = 200
                     /\ resp'.requestId = loc[p].requestId
                     /\ resp'.phone = loc[p].meta.phone)
            /\ (pc[p] = "ensure_create" /\ pc'[p] # "ensure_create"
                /\ users' # users)
                 => users' = users \cup {NewUser(NextUserId(users), loc[p].meta.phone)}
       /\ (resp'.op = "verify" /\ resp'.status = 200)
            => \E p \in Handlers : pc[p] \in VerifiedPath /\ pc'[p] = "idle"
    ]_vars

\* C34 witness: with two sessions for two different phones, the second
\* request was issued and its session is still live when the verification
\* of the first succeeds with the first one's phone.
C34_Witness ==
    /\ resp.op = "verify" /\ resp.status = 200
    /\ \E other \in SessionIds :
         /\ other # resp.requestId
         /\ requestStore[other] # NoMeta
         /\ requestStore[other].phone # resp.phone
         /\ resp.requestId < other
    /\ resp.phone \in IssuedPhones

C36_SearchTerminatesAndIsComplete ==
    /\ (pc[Searcher] = "search_page") ~> (resp.op = "find")
    /\ [](pc[Searcher] = "search_page"
            => /\ loc[Searcher].page = Len(loc[Searcher].visited) + 1
               /\ \A k \in 1..Len(loc[Searcher].visited) :
                    /\ loc[Searcher].visited[k] = k
                    /\ match(PageOf(users, k), SearchPhone) = NoUser
                    /\ Len(PageOf(users, k)) > 0
                    /\ loc[Searcher].reported[k] # Null
                    /\ loc[Searcher].reported[k] > k
               /\ loc[Searcher].page
                    <= (Len(users) + perPage - 1) \div perPage + 1)
    /\ [](resp.op = "find"
            => /\ resp.visited = [k \in 1..resp.page |-> k]
               /\ \A k \in 1..(resp.page - 1) :
                    /\ match(PageOf(users, k), SearchPhone) = NoUser
                    /\ Len(PageOf(users, k)) > 0
                    /\ resp.reported[k] # Null
                    /\ resp.reported[k] > k
               /\ (resp.message = "match")
                    => /\ resp.user = match(PageOf(users, resp.page), SearchPhone)
                       /\ resp.user # NoUser
                       /\ PhoneMatches(resp.user, SearchPhone)
                       /\ \A i \in 1..Len(users) :
                            PhoneMatches(users[i], SearchPhone)
                               => resp.user.id <= users[i].id
               /\ (resp.message = "null")
                    => /\ resp.user = NoUser
                       /\ match(PageOf(users, resp.page), SearchPhone) = NoUser
                       /\ \/ Len(PageOf(users, resp.page)) = 0
                          \/ resp.reported[resp.page] = Null
                          \/ resp.reported[resp.page] <= resp.page
               /\ (resp.message = "null"
                   /\ \A k \in 1..resp.page : resp.reported[k] = k + 1)
                    => \A i \in 1..Len(users) :
                         ~PhoneMatches(users[i], SearchPhone))
    /\ [][(pc[Searcher] = "search_page" /\ pc'[Searcher] = "search_page")
             => /\ loc'[Searcher].page = loc[Searcher].page + 1
                /\ users' = users
      ]_vars

\* C36 witness: the match is on the second page, after a full first page
\* without one, and the search returns it.
C36_Witness ==
    /\ resp.op = "find" /\ resp.message = "match"
    /\ resp.page = 2
    /\ resp.visited = <<1, 2>>
    /\ resp.reported[1] = 2
    /\ Len(users) > perPage
    /\ resp.user.id > perPage

\* C37: calls of POST /profiles/ensure one after the other: a table that
\* starts empty never holds two rows of one auth_user_id; a call with a
\* valid authUserId that has no row inserts exactly one row for it and
\* returns it; a call for an id that has a row returns that row, whatever
\* name the call carries, and leaves the table as it is; a call without
\* authUserId, with one that is no UUID, or without the durable store is
\* rejected and leaves the table as it is, and so does a call that fails on
\* the store.
C37_EnsureProfileIdempotent ==
    /\ [](\A r1 \in profiles, r2 \in profiles :
            r1.auth_user_id = r2.auth_user_id => r1 = r2)
    /\ [](\A row \in profiles : UUID_REGEX(row.auth_user_id))
    /\ [][(resp'.op = "ensure_profile")
            => LET id == resp'.input.authUserId
                   before == {row \in profiles : row.auth_user_id = id}
                   valid == id # Undefined /\ UUID_REGEX(id)
               IN  /\ (~supabaseConfigured)
                        => /\ resp'.status = 500
                           /\ resp'.message = MsgNotConfigured
                           /\ profiles' = profiles
                   /\ (supabaseConfigured /\ ~valid)
                        => /\ resp'.status = 400
                           /\ resp'.message = MsgAuthUserIdRequired
                           /\ profiles' = profiles
                   /\ (resp'.status # 200) => profiles' = profiles
                   /\ (resp'.status = 200)
                        => /\ supabaseConfigured /\ valid
                           /\ resp'.profile.auth_user_id = id
                           /\ resp'.profile \in profiles'
                           /\ IF before = {}
                              THEN /\ profiles' = profiles \cup {resp'.profile}
                                   /\ Cardinality(profiles')
                                        = Cardinality(profiles) + 1
                              ELSE /\ profiles' = profiles
                                   /\ before = {resp'.profile}
                   /\ (supabaseConfigured /\ valid /\ resp'.status # 200)
                        => /\ resp'.status = 500
                           /\ resp'.message = MsgEnsureFailed
          ]_vars

\* C37 witness: a later call for an id that has a row, with another name
\* than the row's, got the row back, while another id has its own row.
C37_Witness ==
    /\ resp.op = "ensure_profile" /\ resp.status = 200
    /\ resp.input.fullName = "Boris"
    /\ resp.profile.full_name = "Anna"
    /\ resp.profile \in profiles
    /\ Cardinality(profiles) = 2

====
